---- MODULE Spec2Model ----
(***************************************************************************)
(* A model of mdhtml: the path helpers (ResolvedPath / FilePath / DirPath), *)
(* the PathProvider roots, the link rewriter of MdHtmlRenderer and the     *)
(* conversion engine MdHtmlConverter (single file, tree, watch).            *)
(*                                                                         *)
(* Strings are modelled by their structure.  A path text is a record       *)
(*   [abs, marks, segs, sep]                                               *)
(* abs: the text begins with a separator; marks: the number of leading     *)
(* "@/" prefixes; segs: the segments between separators; sep: the          *)
(* separator character the text is written with.  A segment is a record    *)
(* [base, ext] so that path.extname and the /\.md$/i replacement can be     *)
(* computed the way node computes them.  An absolute location is the       *)
(* sequence of its segments below the filesystem root.                     *)
(***************************************************************************)
EXTENDS Integers, Sequences, FiniteSets, TLC

\* ------------------------------------------------------------------ bounds
\* Depth (directories below the input root) of the documents of LinkSpec.
MaxDepth == 2

\* --------------------------------------------------------------- segments
Seg(b, e) == [base |-> b, ext |-> e]
DotDot == Seg("..", "")
Dot == Seg(".", "")
At == Seg("@", "")
\* A segment made of one space character: the text " ".
Space == Seg(" ", "")
\* The empty segment between two separators: "a//b", and "@//b" after the marker.
EmptySeg == Seg("", "")

\* String.prototype.trim on the names the model uses: " a" starts with a space,
\* the extension ".md " ends with one.
TrimStartSeg(s) == IF s.base = " a" THEN Seg("a", s.ext) ELSE s
TrimEndSeg(s) == IF s.ext = ".md " THEN Seg(s.base, ".md") ELSE s

\* String.prototype.toLowerCase on the extensions the model uses.
ToLowerCase(e) == IF e = ".MD" THEN ".md" ELSE e

\* path.extname of a segment: "" for "." and "..", else the text from the last dot.
ExtName(s) == IF s \in {Dot, DotDot} THEN "" ELSE s.ext

\* -------------------------------------------------------------- path texts
Txt(a, m, s) == [abs |-> a, marks |-> m, segs |-> s, sep |-> "/"]
Rel(s) == Txt(FALSE, 0, s)
Abs(s) == Txt(TRUE, 0, s)
Marked(s) == Txt(FALSE, 1, s)
EmptyText == Rel(<< >>)

\* s.startsWith("@/")
StartsWithMarker(t) == ~t.abs /\ t.marks > 0
\* s.substring(2) of a text that starts with "@/"; "@//x".substring(2) is "/x".
Substring2(t) ==
  IF t.marks = 1 /\ t.segs # << >> /\ Head(t.segs) = EmptySeg
  THEN [t EXCEPT !.abs = TRUE, !.marks = 0, !.segs = Tail(t.segs)]
  ELSE [t EXCEPT !.marks = @ - 1]
\* s.trim(): a text of white space only becomes the empty text; else the white
\* space before the first name (when the text starts with it) and after the last
\* name goes.  A text that starts with a directory named " " starts with the
\* separator once trimmed: " /a.md" becomes "/a.md".
Trim(t) ==
  IF ~t.abs /\ t.marks = 0 /\ t.segs = <<Space>> THEN EmptyText
  ELSE IF t.segs = << >> THEN t
  ELSE LET n == Len(t.segs)
           e == [t.segs EXCEPT ![n] = TrimEndSeg(@)]
       IN IF ~t.abs /\ t.marks = 0 /\ Head(e) = Space
          THEN [t EXCEPT !.abs = TRUE, !.segs = Tail(e)]
          ELSE [t EXCEPT !.segs = IF ~t.abs /\ t.marks = 0 THEN [e EXCEPT ![1] = TrimStartSeg(@)]
                                  ELSE e]
\* s.trim().length === 0
IsBlank(t) == Trim(t) = EmptyText

\* The segments path.resolve / path.normalize see: a leading "@/" is a segment "@".
RECURSIVE Ats(_)
Ats(n) == IF n = 0 THEN << >> ELSE <<At>> \o Ats(n - 1)
TextSegs(t) == Ats(t.marks) \o t.segs

\* Resolution of segments below an absolute location: "." is dropped, ".." pops
\* (and stays at the root).
RECURSIVE Walk(_, _)
Walk(base, segs) ==
  IF segs = << >> THEN base
  ELSE LET s == Head(segs) IN
       IF s = Dot \/ s = EmptySeg THEN Walk(base, Tail(segs))
       ELSE IF s = DotDot
            THEN Walk(IF base = << >> THEN base ELSE SubSeq(base, 1, Len(base) - 1), Tail(segs))
            ELSE Walk(Append(base, s), Tail(segs))

\* path.resolve(base, text) for an absolute base.
PathResolve(base, t) == IF t.abs THEN Walk(<< >>, TextSegs(t)) ELSE Walk(base, TextSegs(t))

\* path.isAbsolute(path.normalize(text))
PathIsAbsolute(t) == t.abs

\* Length of the longest common prefix of two sequences.
RECURSIVE CommonLen(_, _)
CommonLen(a, b) ==
  IF a = << >> \/ b = << >> \/ Head(a) # Head(b) THEN 0
  ELSE 1 + CommonLen(Tail(a), Tail(b))

RECURSIVE Ups(_)
Ups(n) == IF n = 0 THEN << >> ELSE <<DotDot>> \o Ups(n - 1)

\* ------------------------------------------------------------------- state
VARIABLES
  platform,    \* "posix" | "win32": the host's path convention (path.sep)
  inputDir,    \* PathProvider.#inputDir
  outputDir,   \* PathProvider.#outputDir
  doc,         \* replaceHtmlLinks: the FilePath of the document being produced
  html,        \* replaceHtmlLinks: its argument, a sequence of markup items
  rewritten,   \* replaceHtmlLinks: its result, or NoHtml before the call
  fs,          \* the filesystem: existing absolute location -> node
  args,        \* the call: op, input, output, template, and the converter's options
  pc,          \* the position of the call in convert / watch
  outcome,     \* "pending" | "resolved" | "MdHtmlError" | "Error"
  tmpl,        \* the HtmlTemplate the call resolved (what the watch handlers captured)
  passTmpl,    \* #convertDir / #convertSingle: the template parameter
  cache,       \* TemplateProvider.cache
  embed,       \* MdHtmlRenderer.#embedMathcss
  mathcache,   \* MdHtmlConverter.#mathcache
  mdcss,       \* the renderer's stylesheet: the math sources rendered so far
  files,       \* #convertDir: the directory listing, as the set of its entries
  tasks,       \* #convertDir: the promise of each listed entry
  pendingRm,   \* cleanDir: the removals issued and not yet done
  cssPending,  \* stylesheet writes started by #writeMathcss and not yet done
  written,     \* history: locations opened for writing since the call or event began
  reads,       \* history: locations whose content a transform read since then
  stdoutLog,   \* what was written to process.stdout
  watcher,     \* the paths given to chokidar.watch (empty: no watcher)
  handlers,    \* watch: the event handler that runs or ran last, and after it the
               \* handler of an event that arrived while a template re-pass ran
  clock,       \* Date.now()
  calls,       \* the number of calls made on the converter
  events,      \* the number of watch events delivered (the one that overlaps or follows
               \* a template change is not counted)
  before,      \* history: the filesystem when the call or event began
  resolved,    \* history: the last call of resolveTemplate and what it did
  made,        \* history: the last path made by PathProvider or ResolvedPath.new
  cli          \* the command line run: its arguments, its position, stderr, exit status

linkVars == <<doc, html, rewritten>>
engineVars == <<fs, args, pc, outcome, tmpl, passTmpl, cache, embed, mathcache, mdcss, files,
                tasks, pendingRm, cssPending, written, reads, stdoutLog, watcher, handlers,
                clock, calls, events, before, resolved, made, cli>>
vars == <<platform, inputDir, outputDir, linkVars, engineVars>>

\* process.cwd()
Cwd == <<Seg("w", "")>>

\* path.sep
HostSep == IF platform = "win32" THEN "\\" ELSE "/"

\* path.normalize(path.relative(from, to)) for two absolute locations: the steps up
\* from `from` to the common ancestor, then down to `to`; "." when they are equal.
PathRelative(from, to) ==
  LET k == CommonLen(from, to)
      s == Ups(Len(from) - k) \o SubSeq(to, k + 1, Len(to))
  IN [abs |-> FALSE, marks |-> 0, segs |-> IF s = << >> THEN <<Dot>> ELSE s, sep |-> HostSep]

\* An absolute location written as a string of the host.
AbsText(p) == [abs |-> TRUE, marks |-> 0, segs |-> p, sep |-> HostSep]

\* ------------------------------------------------- ResolvedPath and subclasses
\* absPath.trim() of an absolute path: the white space after the last name goes;
\* "/w/ " becomes "/w/".
TrimAbs(p) ==
  IF p = << >> THEN p
  ELSE IF p[Len(p)] = Space THEN SubSeq(p, 1, Len(p) - 1)
  ELSE [p EXCEPT ![Len(p)] = TrimEndSeg(@)]

\* new ResolvedPath(raw, absPath)
Rp(kind, raw, absPath) == [kind |-> kind, raw |-> Trim(raw), absPath |-> TrimAbs(absPath)]

\* ResolvedPath.new(input, srcDir) for a string input; srcDir is a DirPath.
NewPath(kind, input, srcDir) == Rp(kind, input, PathResolve(srcDir.absPath, input))
\* ResolvedPath.new(input) : srcDir defaults to process.cwd()
NewPathCwd(kind, input) == Rp(kind, input, PathResolve(Cwd, input))

\* DirPath.cwd() / DirPath.new(process.cwd())
DirCwd == Rp("dir", AbsText(Cwd), Cwd)

\* ResolvedPath.isAbsolute
IsAbsolute(p) == PathIsAbsolute(p.raw)
\* ResolvedPath.pathFrom(from)
PathFrom(p, from) == PathRelative(from.absPath, p.absPath)
\* ResolvedPath.getPath(dir)
GetPath(p, dir) == IF IsAbsolute(p) THEN AbsText(p.absPath) ELSE PathFrom(p, dir)

\* FilePath.ext
Ext(p) == IF p.absPath = << >> THEN "" ELSE ToLowerCase(ExtName(p.absPath[Len(p.absPath)]))

\* path.normalize of the segments of a relative text: "." is dropped, ".." pops a
\* name and is kept when there is none to pop.
RECURSIVE NormRel(_, _)
NormRel(acc, segs) ==
  IF segs = << >> THEN acc
  ELSE LET s == Head(segs) IN
       IF s = Dot \/ s = EmptySeg THEN NormRel(acc, Tail(segs))
       ELSE IF s = DotDot /\ acc # << >> /\ acc[Len(acc)] # DotDot
            THEN NormRel(SubSeq(acc, 1, Len(acc) - 1), Tail(segs))
            ELSE NormRel(Append(acc, s), Tail(segs))

\* path.normalize(path.join(raw, "..")) : the raw text of a parent.
ParentRaw(t) ==
  LET s == IF t.abs THEN Walk(<< >>, Append(TextSegs(t), DotDot))
           ELSE NormRel(<< >>, Append(TextSegs(t), DotDot))
  IN [abs |-> t.abs, marks |-> 0,
      segs |-> IF s = << >> /\ ~t.abs THEN <<Dot>> ELSE s, sep |-> HostSep]
\* FilePath.parent
Parent(p) == Rp("dir", ParentRaw(p.raw), Walk(p.absPath, <<DotDot>>))

\* -------------------------------------------------------------- PathProvider
\* PathProvider.relativeFromInput(path)
RelativeFromInput(t) ==
  IF StartsWithMarker(t) THEN NewPath("file", Substring2(t), inputDir)
  ELSE NewPath("file", t, inputDir)

\* PathProvider.relativeFromOutput(path)
RelativeFromOutput(t) ==
  IF StartsWithMarker(t) THEN NewPath("file", Substring2(t), outputDir)
  ELSE NewPath("file", t, outputDir)

\* -------------------------------------------- MdHtmlRenderer.replaceHtmlLinks
(***************************************************************************)
(* The markup is a sequence of items.  An item is one attribute=value       *)
(* occurrence                                                               *)
(*   [pre, name, ws1, ws2, q1, q2, value]                                   *)
(* pre: the characters that precede the name without a break ("data-" in    *)
(* data-src); ws1, ws2: the white space before and after "="; q1, q2: the   *)
(* opening and closing quote; value: the candidates between commas, each    *)
(* the tokens between single spaces.  A token is a path text                *)
(* [t |-> "path", text] or other characters [t |-> "plain", s].             *)
(***************************************************************************)
PathTok(t) == [t |-> "path", text |-> t]
PlainTok(s) == [t |-> "plain", s |-> s]

\* The attribute names of the regular expression.
Attrs == {"href", "src", "action", "formaction", "poster", "cite", "data",
          "manifest", "srcset", "imgsrcset", "ping", "content", "usemap"}

\* The regular expression (attrs)\s*=\s*["']([^"']+)["'] finds the name wherever
\* it ends right before the "=", whatever precedes it.
RegexMatches(item) == item.name \in Attrs

\* Mutant of ReplaceBackslashes: the separators of the host are kept.
ReplaceBackslashes_Kept(t) == t

\* text.replace(/\\/g, "/")
ReplaceBackslashes(t) == [t EXCEPT !.sep = "/"]

\* replaceLink(link)
ReplaceLink(tok, file) ==
  IF tok.t = "path" /\ StartsWithMarker(tok.text)
  THEN PathTok(ReplaceBackslashes(
         GetPath(RelativeFromInput(Substring2(tok.text)), Parent(file))))
  ELSE tok

\* text.startsWith(absMarker) ? replaceLink(text) : text
ReplaceTok(tok, file) ==
  IF tok.t = "path" /\ StartsWithMarker(tok.text) THEN ReplaceLink(tok, file) ELSE tok

\* value.startsWith(absMarker) for a whole attribute value
ValueStartsWithMarker(value) ==
  /\ value # << >> /\ value[1] # << >>
  /\ value[1][1].t = "path" /\ StartsWithMarker(value[1][1].text)

\* The callback of html.replace for one match.
ReplaceMatch(item, file) ==
  IF item.name \in {"srcset", "imgsrcset"}
  THEN [item EXCEPT !.ws1 = "", !.ws2 = "", !.q1 = "\"", !.q2 = "\"",
          !.value = [c \in DOMAIN item.value |->
                       [k \in DOMAIN item.value[c] |-> ReplaceTok(item.value[c][k], file)]]]
  ELSE IF ValueStartsWithMarker(item.value)
  THEN [item EXCEPT !.ws1 = "", !.ws2 = "", !.q1 = "\"", !.q2 = "\"",
          !.value = << <<ReplaceLink(item.value[1][1], file)>> >>]
  ELSE item

\* MdHtmlRenderer.replaceHtmlLinks(html, file)
ReplaceHtmlLinks(h, file) ==
  [i \in DOMAIN h |-> IF RegexMatches(h[i]) THEN ReplaceMatch(h[i], file) ELSE h[i]]

\* ------------------------------------------------------------- filesystem
(***************************************************************************)
(* A node is [kind, data]; kind is "dir" or "file".  The data of a file is  *)
(*   [src, tmpl, title, date, css, links]                                   *)
(* src: the text an author wrote (a markdown source, a template, any other  *)
(* file) or "mathcss" for the stylesheet; the other fields are what the     *)
(* rendering put around it: the template's text, the title, the date, the   *)
(* stylesheet and the directory the "@/" links were made relative to.       *)
(***************************************************************************)
NoSeg == Seg("", "")
Data(src) == [src |-> src, tmpl |-> "", title |-> NoSeg, date |-> -1, css |-> {}, links |-> << >>]
\* The content of a file that was opened for writing and never written.
EmptyData == Data("")
DirNode == [kind |-> "dir", data |-> EmptyData]
FileNode(d) == [kind |-> "file", data |-> d]

\* existsSync / statSync(p).isFile() / isDirectory()
Exists(f, p) == p \in DOMAIN f
IsFileAt(f, p) == p \in DOMAIN f /\ f[p].kind = "file"
IsDirAt(f, p) == p \in DOMAIN f /\ f[p].kind = "dir"

Prefixes(p) == {SubSeq(p, 1, k) : k \in 0..Len(p)}
IsPrefix(p, q) == Len(p) <= Len(q) /\ SubSeq(q, 1, Len(p)) = p
ParentOf(p) == IF p = << >> THEN p ELSE SubSeq(p, 1, Len(p) - 1)
\* The entries directly in a directory, and everything below it.
Children(f, d) == {q \in DOMAIN f : Len(q) = Len(d) + 1 /\ IsPrefix(d, q)}
Descendants(f, d) == {q \in DOMAIN f : Len(q) > Len(d) /\ IsPrefix(d, q)}

\* mkdir(p, { recursive: true }) succeeds unless a component is a file.
MkdirOk(f, p) == \A q \in Prefixes(p) : q \in DOMAIN f => f[q].kind = "dir"
MkdirP(f, p) == [q \in DOMAIN f \cup Prefixes(p) |-> IF q \in DOMAIN f THEN f[q] ELSE DirNode]

\* A file can be opened for writing where its directory exists and no directory
\* has its name.
CanWrite(f, p) == IsDirAt(f, ParentOf(p)) /\ ~IsDirAt(f, p)
Put(f, p, d) == [q \in DOMAIN f \cup {p} |-> IF q = p THEN FileNode(d) ELSE f[q]]

\* rm(p, { recursive: true, force: true }) / unlink(p)
RemoveTree(f, p) == [q \in {r \in DOMAIN f : ~IsPrefix(p, r)} |-> f[q]]

\* ----------------------------------------------------------------- templates
\* An HtmlTemplate: its text (id) and the placeholders the text uses.
Tm(id, t, d, m) == [id |-> id, title |-> t, date |-> d, mathcss |-> m]
NoTmpl == Tm("", FALSE, FALSE, FALSE)

TemplateNone == Tm("{{{content}}}", FALSE, FALSE, FALSE)
TemplateDefault == Tm("defaultTemplate", TRUE, FALSE, TRUE)
TemplatePlain == Tm("plainTemplate", TRUE, FALSE, FALSE)

NameNone == Rel(<<Seg("none", "")>>)
NameDefault == Rel(<<Seg("default", "")>>)
NamePlain == Rel(<<Seg("plain", "")>>)

\* predefinedTemplates, keyed by name
PredefinedTemplates ==
  [n \in {NameNone, NameDefault, NamePlain} |->
     IF n = NameNone THEN TemplateNone
     ELSE IF n = NameDefault THEN TemplateDefault ELSE TemplatePlain]

\* TemplateProvider.isPredefined
IsPredefined(name) == name \in DOMAIN PredefinedTemplates

\* The template files an author may have written: "{{date}} {{{content}}}" and
\* "{{{content}}}"; new HtmlTemplate(content) of a file's text.
HtmlTemplateOf(d) == Tm(d.src, FALSE, d.src = "{{date}} {{{content}}}", FALSE)

\* HtmlTemplate.acceptsMathcss
AcceptsMathcss(t) == t.mathcss

\* --------------------------------------------------------------- rendering
\* The markdown sources whose rendering holds mathematics ("<mjx-").
HasMath(src) == src = "# $x$"

\* MdHtmlRenderer.getMathcss: the stylesheet for the mathematics rendered so far;
\* it is never the empty string.
GetMathcss(css) == {"base"} \cup css

\* The renderer's stylesheet after CMarkdown.render of a text.
MdRender(css, src) == IF HasMath(src) THEN css \cup {src} ELSE css

\* Mutant of RenderMarkdown: the date is put in whatever the template's text.
RenderMarkdown_Dated(d, t, file, now, css, emb) ==
  [src |-> d.src,
   tmpl |-> t.id,
   title |-> IF t.title THEN file.absPath[Len(file.absPath)] ELSE NoSeg,
   date |-> now,
   css |-> IF t.mathcss /\ HasMath(d.src) /\ emb THEN GetMathcss(css) ELSE {},
   links |-> Parent(file).absPath]

\* MdHtmlRenderer.renderMarkdown(content, template, file) at time `now`, with the
\* renderer's stylesheet `css` (after the text was rendered) and the embed flag.
RenderMarkdown(d, t, file, now, css, emb) ==
  [src |-> d.src,
   tmpl |-> t.id,
   title |-> IF t.title THEN file.absPath[Len(file.absPath)] ELSE NoSeg,
   date |-> IF t.date THEN now ELSE -1,
   css |-> IF t.mathcss /\ HasMath(d.src) /\ emb THEN GetMathcss(css) ELSE {},
   links |-> Parent(file).absPath]

\* --------------------------------------------------------- the initial world
InName == Seg("input", "")
OutName == Seg("output", "")
FileMd == Seg("file", ".md")
TemplateHtml == Seg("template", ".html")
MathCss == Seg("math", ".css")
AMd == Seg("a", ".md")
AMD == Seg("a", ".MD")
BTxt == Seg("b", ".txt")
CMd == Seg("c", ".md")
DocsName == Seg("docs", "")
NotesMd == Seg("notes", ".md")
OldTxt == Seg("old", ".txt")
OldDir == Seg("olddir", "")

\* A filesystem from a set of <<location, node>> pairs.
MkFs(pairs) == [p \in {x[1] : x \in pairs} |-> (CHOOSE x \in pairs : x[1] = p)[2]]

InputRoot == Cwd \o <<InName>>
OutputRoot == Cwd \o <<OutName>>

\* What every initial filesystem holds: the working directory with file.md, the
\* template file template.html and the directory input.
BaseWorld ==
  { << << >>, DirNode >>, <<Cwd, DirNode>>,
    <<Cwd \o <<FileMd>>, FileNode(Data("This is file"))>>,
    <<Cwd \o <<TemplateHtml>>, FileNode(Data("{{date}} {{{content}}}"))>>,
    <<InputRoot, DirNode>> }

\* The input trees: a document and another file; a document in a sub-directory;
\* a directory whose name ends in .md beside a document; two documents whose
\* names differ in the case of the extension.
InputTrees ==
  { { <<InputRoot \o <<AMd>>, FileNode(Data("# $x$"))>>,
      <<InputRoot \o <<BTxt>>, FileNode(Data("text"))>> },
    { <<InputRoot \o <<DocsName>>, DirNode>>,
      <<InputRoot \o <<DocsName, CMd>>, FileNode(Data("Hello World!"))>> },
    { <<InputRoot \o <<NotesMd>>, DirNode>>,
      <<InputRoot \o <<AMd>>, FileNode(Data("# $x$"))>> },
    { <<InputRoot \o <<AMd>>, FileNode(Data("# $x$"))>>,
      <<InputRoot \o <<AMD>>, FileNode(Data("Hello World!"))>> } }

\* The output directory: absent, or left by an earlier run with a stylesheet, an
\* unrelated file and an unrelated directory.
OutputTrees ==
  { { },
    { <<OutputRoot, DirNode>>,
      <<OutputRoot \o <<MathCss>>, FileNode(Data("old stylesheet"))>>,
      <<OutputRoot \o <<OldTxt>>, FileNode(Data("12345"))>>,
      <<OutputRoot \o <<OldDir>>, DirNode>>,
      <<OutputRoot \o <<OldDir, OldTxt>>, FileNode(Data("12345"))>> } }

InitialWorlds == {MkFs(BaseWorld \cup i \cup o) : i \in InputTrees, o \in OutputTrees}

\* ------------------------------------------------------------------ the call
\* An argument or option that was not given.
Undefined == [undefined |-> TRUE]

\* The arguments of convert / watch and the options of the converter.
Inputs == {Rel(<<FileMd>>), Rel(<<InName>>), Rel(<<Seg("nonexistent", "")>>)}
Outputs == {Undefined, EmptyText, Rel(<<Seg("out", ".html")>>), Rel(<<OutName>>)}
Templates == {Undefined, Rel(<<Space>>), NameNone, Rel(<<TemplateHtml>>),
              Rel(<<Seg("nofile", ".html")>>), Rel(<<InName>>)}
MathOptions == {Undefined, Rel(<<MathCss>>)}

\* The ignore option the command line and the config file hand to the converter:
\* no pattern, or the pattern a.md.  The constructor keeps it with the options.
IgnoreOptions == {{}, {Rel(<<AMd>>)}}

Calls ==
  {c \in [op : {"convert", "watch"}, input : Inputs, output : Outputs, template : Templates,
          clean : BOOLEAN, stdout : BOOLEAN, math : MathOptions, ignore : IgnoreOptions] :
     c.ignore # {} => c.input = Rel(<<InName>>)}

\* replaceHtmlLinks was not called.
NoHtml == << >>

\* No promise of #convertDir exists.
NoTasks == [p \in {} |-> "ok"]

\* The converter is used as a library: no command line run.
NoCli == [pc |-> "none"]

\* No path was made.
NoPath == [op |-> "none", text |-> Undefined, anchor |-> Undefined, path |-> Undefined]

\* resolveTemplate was not called.
NoResolve ==
  [template |-> Undefined, useCache |-> TRUE, tmpl |-> NoTmpl, read |-> FALSE, warn |-> FALSE]

\* new MdHtmlConverter(options), before any call, on filesystem f.
EngineNew(f) ==
  /\ fs = f
  /\ pc = "start"
  /\ outcome = "pending"
  /\ tmpl = NoTmpl
  /\ passTmpl = NoTmpl
  /\ cache = PredefinedTemplates
  /\ embed = FALSE
  /\ mathcache = {}
  /\ mdcss = {}
  /\ files = {}
  /\ tasks = NoTasks
  /\ pendingRm = {}
  /\ cssPending = {}
  /\ written = {}
  /\ reads = {}
  /\ stdoutLog = << >>
  /\ watcher = {}
  /\ handlers = << >>
  /\ clock = 0
  /\ calls = 1
  /\ events = 0
  /\ before = f
  /\ resolved = NoResolve
  /\ made = NoPath
  /\ cli = NoCli

\* ------------------------------------------------------------------- bounds
MaxCalls == 2     \* calls made on one converter
MaxEvents == 1    \* watch events delivered
MaxClock == 1     \* the values Date.now() takes are 0..MaxClock

\* Time passes, or not, between two calls or events.
Later == {c \in {clock, clock + 1} : c <= MaxClock}

\* ------------------------------------------------ convert / watch: arguments
\* The location a path string of the call names: path.resolve(process.cwd(), text).
Loc(t) == PathResolve(Cwd, t)

\* PathProvider.defaultOutput(input): basename(input, extname(input)) + ".html"
DefaultOutput(t) ==
  LET s == TextSegs(t) IN Rel(<<Seg(s[Len(s)].base, ".html")>>)

\* output ?? PathProvider.defaultOutput(input)
OutputArg == IF args.output = Undefined THEN DefaultOutput(args.input) ELSE args.output
\* template ?? TemplateProvider.defaultTemplateName
TemplateArg == IF args.template = Undefined THEN NameDefault ELSE args.template

\* PathUtils.open(input).kind, where statSync found something.
OpenKind(f, t) == IF IsFileAt(f, Loc(t)) THEN "file" ELSE "dir"

\* MdHtmlConverter.checkArguments: "ok", or the kind of the error thrown.  statSync
\* throws its own Error (ENOENT) when the input does not exist.
CheckArguments(f) ==
  IF ~Exists(f, Loc(args.input)) THEN "Error"
  ELSE IF OpenKind(f, args.input) = "file" /\ args.output # Undefined /\ IsBlank(args.output)
    THEN "MdHtmlError"
  ELSE IF OpenKind(f, args.input) = "dir" /\ (args.output = Undefined \/ IsBlank(args.output))
    THEN "MdHtmlError"
  ELSE IF OpenKind(f, args.input) = "dir" /\ args.stdout THEN "MdHtmlError"
  ELSE IF args.template = Undefined THEN "ok"
  ELSE IF IsBlank(args.template) THEN "MdHtmlError"
  ELSE IF ~IsPredefined(args.template) /\ ~Exists(f, Loc(args.template)) THEN "MdHtmlError"
  ELSE "ok"

\* Mutant of ResolveTemplate: the cache is used whatever useCache says.
ResolveTemplate_Cached(f, c, t, useCache) ==
  LET r == [ok |-> TRUE, tmpl |-> TemplateDefault, cache |-> c, read |-> FALSE, warn |-> FALSE]
  IN
  IF t = Undefined \/ IsBlank(t) THEN r
  ELSE IF t \in DOMAIN c THEN [r EXCEPT !.tmpl = c[t]]
  ELSE IF Exists(f, Loc(t)) THEN
    IF IsFileAt(f, Loc(t))
    THEN [r EXCEPT !.tmpl = HtmlTemplateOf(f[Loc(t)].data), !.read = TRUE,
                   !.cache = [n \in DOMAIN c \cup {t} |->
                                IF n = t THEN HtmlTemplateOf(f[Loc(t)].data) ELSE c[n]]]
    ELSE [r EXCEPT !.ok = FALSE, !.tmpl = NoTmpl, !.read = TRUE]
  ELSE [r EXCEPT !.warn = TRUE]

\* resolveTemplate that would return what it read without this.cache[template] = tmpl.
ResolveTemplate_NoStore(f, c, t, useCache) ==
  LET r == [ok |-> TRUE, tmpl |-> TemplateDefault, cache |-> c, read |-> FALSE, warn |-> FALSE]
  IN
  IF t = Undefined \/ IsBlank(t) THEN r
  ELSE IF useCache /\ t \in DOMAIN c THEN [r EXCEPT !.tmpl = c[t]]
  ELSE IF Exists(f, Loc(t)) THEN
    IF IsFileAt(f, Loc(t))
    THEN [r EXCEPT !.tmpl = HtmlTemplateOf(f[Loc(t)].data), !.read = TRUE]
    ELSE [r EXCEPT !.ok = FALSE, !.tmpl = NoTmpl, !.read = TRUE]
  ELSE IF IsPredefined(t) THEN [r EXCEPT !.tmpl = PredefinedTemplates[t]]
  ELSE [r EXCEPT !.warn = TRUE]

\* TemplateProvider.resolveTemplate(template, { useCache }): the template and the
\* cache after it, whether readFile was called and whether console.warn was; or
\* a rejection when readFile fails (the path is a directory).
ResolveTemplate(f, c, t, useCache) ==
  LET r == [ok |-> TRUE, tmpl |-> TemplateDefault, cache |-> c, read |-> FALSE, warn |-> FALSE]
  IN
  IF t = Undefined \/ IsBlank(t) THEN r
  ELSE IF useCache /\ t \in DOMAIN c THEN [r EXCEPT !.tmpl = c[t]]
  ELSE IF Exists(f, Loc(t)) THEN
    IF IsFileAt(f, Loc(t))
    THEN [r EXCEPT !.tmpl = HtmlTemplateOf(f[Loc(t)].data), !.read = TRUE,
                   !.cache = [n \in DOMAIN c \cup {t} |->
                                IF n = t THEN HtmlTemplateOf(f[Loc(t)].data) ELSE c[n]]]
    ELSE [r EXCEPT !.ok = FALSE, !.tmpl = NoTmpl, !.read = TRUE]
  ELSE IF IsPredefined(t) THEN [r EXCEPT !.tmpl = PredefinedTemplates[t]]
  ELSE [r EXCEPT !.warn = TRUE]

\* What a call of resolveTemplate leaves in the history.
Resolved(t, useCache, r) ==
  [template |-> t, useCache |-> useCache, tmpl |-> r.tmpl, read |-> r.read, warn |-> r.warn]

\* #configureForTemplate(template): the value given to embedMathcssEnabled.
ConfigureForTemplate(t) == args.math = Undefined /\ AcceptsMathcss(t)

\* --------------------------------------------------- #prerender / #transform
\* FilePath.new(file.parentPath + "/" + file.name) of a listed entry, and
\* FilePath.new(filepath) of the path chokidar reports: an absolute string.
ListedPath(p) == NewPathCwd("file", AbsText(p))

\* relPath.replace(/\.md$/i, ".html")
ReplaceMdExt(t) ==
  IF t.segs # << >> /\ ToLowerCase(ExtName(t.segs[Len(t.segs)])) = ".md"
  THEN [t EXCEPT !.segs[Len(t.segs)] = Seg(t.segs[Len(t.segs)].base, ".html")]
  ELSE t

\* #transform: outputPath, for the rendered and for the copied file.
TransformDst(file) ==
  IF Ext(file) = ".md"
  THEN NewPath("file", ReplaceMdExt(GetPath(file, inputDir)), outputDir)
  ELSE NewPath("file", GetPath(file, inputDir), outputDir)

\* Where a promise of files.map stands after its callback ran up to the first await:
\* ph is "pre" (#prerender) or "tr" (#transform).  st is the operation awaited:
\* "read" (readFile), "mkdir" (parent.mkdir), "write" (readFile, then the pipeline
\* into the stream that was opened), "copy" (copyFile); or "ok" / "fail" once the
\* promise is fulfilled / rejected.  statSync in isFile() throws if nothing is there.
FirstAwait(f, ph, file) ==
  IF ph = "pre" THEN (IF Ext(file) = ".md" THEN "read" ELSE "ok")
  ELSE IF Ext(file) = ".md" THEN "mkdir"
  ELSE IF ~Exists(f, file.absPath) THEN "fail"
  ELSE IF IsFileAt(f, file.absPath) THEN "mkdir"
  ELSE "ok"

Task(f, ph, file, t) == [file |-> file, ph |-> ph, st |-> FirstAwait(f, ph, file), t |-> t]
NoTask == [file |-> DirCwd, ph |-> "tr", st |-> "ok", t |-> NoTmpl]

Settled(ts) == \A p \in DOMAIN ts : ts[p].st \in {"ok", "fail"}
\* for (const p of promises) await p : the loop ends at the first promise, in the
\* order of the listing, that is rejected, once those before it are fulfilled.  The
\* order of readdir is the host's: any rejected promise may be the one the loop
\* ends at, and the promises are kept by entry, without the order.
Rejected(ts) == \E p \in DOMAIN ts : ts[p].st = "fail"
\* The loop would not await: it is over whatever the promises have done.
Fulfilled_Unawaited(ts) == TRUE
Fulfilled(ts) == \A p \in DOMAIN ts : ts[p].st = "ok"

\* The operation a promise awaits completes: the promise's next position, the
\* filesystem and the renderer's stylesheet after it, and the locations it opened
\* for writing (wr) and read (rd).  copyFile of a file onto itself changes nothing.
TaskEffect(task, f, css, now, emb) ==
  LET file == task.file
      src == file.absPath
      dst == TransformDst(file).absPath
      dstDir == Parent(TransformDst(file)).absPath
      fail == [st |-> "fail", fs |-> f, mdcss |-> css, wr |-> {}, rd |-> {}]
  IN
  IF task.st = "read" THEN
    IF IsFileAt(f, src)
    THEN [fail EXCEPT !.st = "ok", !.mdcss = MdRender(css, f[src].data.src), !.rd = {src}]
    ELSE fail
  ELSE IF task.st = "mkdir" THEN
    IF ~MkdirOk(f, dstDir) THEN fail
    ELSE IF Ext(file) # ".md" THEN [fail EXCEPT !.st = "copy", !.fs = MkdirP(f, dstDir)]
    ELSE IF IsDirAt(f, dst) THEN [fail EXCEPT !.fs = MkdirP(f, dstDir)]
    ELSE [fail EXCEPT !.st = "write", !.fs = Put(MkdirP(f, dstDir), dst, EmptyData),
                      !.wr = {dst}]
  ELSE IF task.st = "write" THEN
    IF IsFileAt(f, src)
    THEN LET d == f[src].data
             css2 == MdRender(css, d.src)
         IN [st |-> "ok",
             fs |-> IF CanWrite(f, dst)
                    THEN Put(f, dst, RenderMarkdown(d, task.t, file, now, css2, emb))
                    ELSE f,
             mdcss |-> css2, wr |-> {dst}, rd |-> {src}]
    ELSE fail
  ELSE IF task.st = "copy" THEN
    IF ~IsFileAt(f, src) \/ ~CanWrite(f, dst) THEN fail
    ELSE IF dst = src THEN [fail EXCEPT !.st = "ok", !.rd = {src}]
    ELSE [fail EXCEPT !.st = "ok", !.fs = Put(f, dst, f[src].data), !.wr = {dst}, !.rd = {src}]
  ELSE [fail EXCEPT !.st = task.st]

\* ---------------------------------------------------------------- cleanDir
\* Mutant of RmTarget (src/src/fsutils.ts): a directory entry removes `dir` itself.
RmTarget_Dir(f, dir, entry) == IF IsDirAt(f, entry) THEN dir ELSE entry

\* cleanDir: the path an entry's rm / unlink is given, path.join(dir, file.name).
RmTarget(f, dir, entry) == entry

\* cleanDir: the removals of files.map: the path and whether rm (recursive, force)
\* or unlink is used.
Removals(f, dir) ==
  {[path |-> RmTarget(f, dir, e), rm |-> IsDirAt(f, e)] : e \in Children(f, dir)}

\* ------------------------------------------------------ MdHtmlConverter: steps
\* What the steps of the converter never change.
callVars == <<platform, doc, html, rewritten, args, resolved, made, cli>>
linkArgs == <<platform, doc, html, rewritten, args, made, cli>>

\* A watch handler is running.
Running == handlers # << >> /\ handlers[1].st = "run"

\* The watchlist of #watchSingle / #watchDir.
Watchlist(f) ==
  IF OpenKind(f, args.input) = "file" THEN {Loc(args.input)}
  ELSE {Loc(args.input)} \cup (IF Exists(f, Loc(TemplateArg)) THEN {Loc(TemplateArg)} ELSE {})

\* A conversion ends, fulfilled (ok) or rejected.  In a handler the rejection is
\* nobody's; in convert it is the call's; watch goes on to chokidar.watch.
Finish(ok, f) ==
  IF Running
  THEN /\ pc' = "watching"
       /\ handlers' = [handlers EXCEPT ![1].st = IF ok THEN "done" ELSE "failed"]
       /\ UNCHANGED <<outcome, watcher>>
  ELSE IF ok /\ args.op = "watch"
  THEN /\ pc' = "watching"
       /\ outcome' = "resolved"
       /\ watcher' = Watchlist(f)
       /\ UNCHANGED handlers
  ELSE /\ pc' = "done"
       /\ outcome' = (IF ok THEN "resolved" ELSE "Error")
       /\ UNCHANGED <<watcher, handlers>>

\* #writeMathcss, up to the call of MdHtmlRenderer.writeMathcss, which is not
\* awaited: the stylesheet is taken now, the write is left pending.
WriteMathcss(css) ==
  IF args.math # Undefined /\ mathcache # GetMathcss(css)
  THEN /\ cssPending' = cssPending \cup
            {[dst |-> RelativeFromOutput(args.math), css |-> GetMathcss(css)]}
       /\ mathcache' = GetMathcss(css)
  ELSE UNCHANGED <<cssPending, mathcache>>

\* convert / watch: this.checkArguments(input, output, template)
Check ==
  /\ pc = "start"
  /\ IF CheckArguments(fs) = "ok"
     THEN pc' = "resolve" /\ UNCHANGED outcome
     ELSE pc' = "done" /\ outcome' = CheckArguments(fs)
  /\ UNCHANGED <<callVars, inputDir, outputDir, fs, tmpl, passTmpl, cache, embed, mathcache,
                 mdcss, files, tasks, pendingRm, cssPending, written, reads, stdoutLog,
                 watcher, handlers, clock, calls, events, before>>

\* convert / #watchSingle / #watchDir: await this.#tmplProvider.resolveTemplate(template)
Resolve ==
  /\ pc = "resolve"
  /\ LET r == ResolveTemplate(fs, cache, TemplateArg, TRUE) IN
     /\ resolved' = Resolved(TemplateArg, TRUE, r)
     /\ IF r.ok
        THEN /\ tmpl' = r.tmpl
             /\ passTmpl' = r.tmpl
             /\ cache' = r.cache
             /\ pc' = IF OpenKind(fs, args.input) = "file" THEN "single" ELSE "dir"
             /\ UNCHANGED <<outcome, watcher, handlers>>
        ELSE /\ Finish(FALSE, fs)
             /\ UNCHANGED <<tmpl, passTmpl, cache>>
  /\ UNCHANGED <<linkArgs, inputDir, outputDir, fs, embed, mathcache, mdcss, files, tasks,
                 pendingRm, cssPending, written, reads, stdoutLog, clock, calls, events,
                 before>>

\* #convertSingle / #convertToStdout: #configurePathsForSingle, #configureForTemplate
ConfigureSingle ==
  /\ pc = "single"
  /\ inputDir' = DirCwd
  /\ outputDir' = DirCwd
  /\ embed' = ConfigureForTemplate(passTmpl)
  /\ pc' = "write"
  /\ UNCHANGED <<callVars, fs, outcome, tmpl, passTmpl, cache, mathcache, mdcss, files, tasks,
                 pendingRm, cssPending, written, reads, stdoutLog, watcher, handlers, clock,
                 calls, events, before>>

\* #convertSingle: writeStream to process.stdout, or writeFile and #writeMathcss.
\* createWriteStream on a directory fails with EISDIR, an Error of the stream.
WriteSingle ==
  /\ pc = "write"
  /\ LET file == NewPathCwd("file", args.input)
         output == NewPathCwd("file", OutputArg)
         dst == output.absPath
         dstDir == Parent(output).absPath
         canRead == IsFileAt(fs, file.absPath)
         css2 == IF canRead THEN MdRender(mdcss, fs[file.absPath].data.src) ELSE mdcss
         out == RenderMarkdown(fs[file.absPath].data, passTmpl, file, clock, css2, embed)
     IN
     IF args.stdout THEN
       /\ stdoutLog' = IF canRead THEN Append(stdoutLog, out) ELSE stdoutLog
       /\ mdcss' = css2
       /\ reads' = reads \cup {file.absPath}
       /\ Finish(canRead, fs)
       /\ UNCHANGED <<fs, written, cssPending, mathcache>>
     ELSE IF ~MkdirOk(fs, dstDir) THEN
       /\ Finish(FALSE, fs)
       /\ UNCHANGED <<fs, written, reads, mdcss, stdoutLog, cssPending, mathcache>>
     ELSE IF IsDirAt(fs, dst) THEN
       /\ fs' = MkdirP(fs, dstDir)
       /\ Finish(FALSE, fs')
       /\ UNCHANGED <<written, reads, mdcss, stdoutLog, cssPending, mathcache>>
     ELSE
       /\ fs' = Put(MkdirP(fs, dstDir), dst, IF canRead THEN out ELSE EmptyData)
       /\ written' = written \cup {dst}
       /\ reads' = reads \cup {file.absPath}
       /\ mdcss' = css2
       /\ IF canRead THEN WriteMathcss(css2) ELSE UNCHANGED <<cssPending, mathcache>>
       /\ Finish(canRead, fs')
       /\ UNCHANGED stdoutLog
  /\ UNCHANGED <<callVars, inputDir, outputDir, tmpl, passTmpl, cache, embed, files, tasks,
                 pendingRm, clock, calls, events, before>>

\* MdHtmlRenderer.writeMathcss(dstPath), started by #writeMathcss: parent.mkdir and
\* writeFile.  Nobody awaits it; a failure is an unhandled rejection.
FlushCss ==
  \E c \in cssPending :
    LET dst == c.dst.absPath
        dstDir == Parent(c.dst).absPath
        ok == MkdirOk(fs, dstDir) /\ ~IsDirAt(fs, dst)
    IN
    /\ cssPending' = cssPending \ {c}
    /\ fs' = IF ok THEN Put(MkdirP(fs, dstDir), dst, [Data("mathcss") EXCEPT !.css = c.css])
             ELSE fs
    /\ written' = IF ok THEN written \cup {dst} ELSE written
    /\ UNCHANGED <<callVars, inputDir, outputDir, pc, outcome, tmpl, passTmpl, cache, embed,
                   mathcache, mdcss, files, tasks, pendingRm, reads, stdoutLog, watcher,
                   handlers, clock, calls, events, before>>

\* Mutant of ConfigureDir: #configurePaths is given the two directories in the
\* other order.
ConfigureDir_Swapped ==
  /\ pc = "dir"
  /\ inputDir' = NewPathCwd("dir", OutputArg)
  /\ outputDir' = NewPathCwd("dir", args.input)
  /\ embed' = ConfigureForTemplate(passTmpl)
  /\ pc' = IF args.clean THEN "clean" ELSE "list"
  /\ UNCHANGED <<callVars, fs, outcome, tmpl, passTmpl, cache, mathcache, mdcss, files, tasks,
                 pendingRm, cssPending, written, reads, stdoutLog, watcher, handlers, clock,
                 calls, events, before>>

\* #convertDir: #configurePaths(inputDir, outputDir), #configureForTemplate(template)
ConfigureDir ==
  /\ pc = "dir"
  /\ inputDir' = NewPathCwd("dir", args.input)
  /\ outputDir' = NewPathCwd("dir", OutputArg)
  /\ embed' = ConfigureForTemplate(passTmpl)
  /\ pc' = IF args.clean THEN "clean" ELSE "list"
  /\ UNCHANGED <<callVars, fs, outcome, tmpl, passTmpl, cache, mathcache, mdcss, files, tasks,
                 pendingRm, cssPending, written, reads, stdoutLog, watcher, handlers, clock,
                 calls, events, before>>

\* #convertDir: outputDir.clean(): cleanDir up to Promise.all: existsSync, readdir
\* (which fails on a file) and one rm / unlink issued for each entry.
CleanDir ==
  /\ pc = "clean"
  /\ IF ~Exists(fs, outputDir.absPath)
     THEN pc' = "list" /\ UNCHANGED <<pendingRm, outcome, watcher, handlers>>
     ELSE IF ~IsDirAt(fs, outputDir.absPath)
     THEN Finish(FALSE, fs) /\ UNCHANGED pendingRm
     ELSE /\ pendingRm' = Removals(fs, outputDir.absPath)
          /\ pc' = IF pendingRm' = {} THEN "list" ELSE "cleaning"
          /\ UNCHANGED <<outcome, watcher, handlers>>
  /\ UNCHANGED <<callVars, inputDir, outputDir, fs, tmpl, passTmpl, cache, embed, mathcache,
                 mdcss, files, tasks, cssPending, written, reads, stdoutLog, clock, calls,
                 events, before>>

\* cleanDir: one rm (recursive, force) or unlink completes; unlink of a path that
\* is gone rejects.  Promise.all is fulfilled when all are done.
RemoveEntry ==
  \E r \in pendingRm :
    LET ok == r.rm \/ Exists(fs, r.path) IN
    /\ pendingRm' = pendingRm \ {r}
    /\ fs' = RemoveTree(fs, r.path)
    /\ IF pc # "cleaning" THEN UNCHANGED <<pc, outcome, watcher, handlers>>
       ELSE IF ~ok THEN Finish(FALSE, fs')
       ELSE /\ pc' = IF pendingRm' = {} THEN "list" ELSE "cleaning"
            /\ UNCHANGED <<outcome, watcher, handlers>>
    /\ UNCHANGED <<callVars, inputDir, outputDir, tmpl, passTmpl, cache, embed, mathcache,
                   mdcss, files, tasks, cssPending, written, reads, stdoutLog, clock, calls,
                   events, before>>

\* The promises of files.map for one phase of #convertDir.
Promises(f, ph, listing, t) == [p \in listing |-> Task(f, ph, ListedPath(p), t)]

\* #convertDir: inputDir.readdir() (recursive), then files.map of the first phase:
\* #prerender when the stylesheet is embedded, else #transform.
ReadDir ==
  /\ pc = "list"
  /\ IF ~IsDirAt(fs, inputDir.absPath)
     THEN Finish(FALSE, fs) /\ UNCHANGED <<files, tasks>>
     ELSE /\ files' = Descendants(fs, inputDir.absPath)
          /\ tasks' = Promises(fs, IF embed THEN "pre" ELSE "tr", files', passTmpl)
          /\ pc' = IF embed THEN "prerender" ELSE "transform"
          /\ UNCHANGED <<outcome, watcher, handlers>>
  /\ UNCHANGED <<callVars, inputDir, outputDir, fs, tmpl, passTmpl, cache, embed, mathcache,
                 mdcss, pendingRm, cssPending, written, reads, stdoutLog, clock, calls,
                 events, before>>

\* The operation awaited in one #prerender or #transform completes.  The promises
\* run on after convert has been rejected.
TaskStep ==
  \E i \in DOMAIN tasks :
    /\ tasks[i].st \notin {"ok", "fail"}
    /\ LET e == TaskEffect(tasks[i], fs, mdcss, clock, embed) IN
       /\ tasks' = [tasks EXCEPT ![i].st = e.st]
       /\ fs' = e.fs
       /\ mdcss' = e.mdcss
       /\ written' = written \cup e.wr
       /\ reads' = reads \cup e.rd
    /\ UNCHANGED <<callVars, inputDir, outputDir, pc, outcome, tmpl, passTmpl, cache, embed,
                   mathcache, files, pendingRm, cssPending, stdoutLog, watcher, handlers,
                   clock, calls, events, before>>

\* #convertDir: the loop awaiting the #prerender promises ends; files.map of
\* #transform follows.
AwaitPrerender ==
  /\ pc = "prerender"
  /\ \/ /\ Fulfilled(tasks)
        /\ tasks' = Promises(fs, "tr", files, passTmpl)
        /\ pc' = "transform"
        /\ UNCHANGED <<outcome, watcher, handlers>>
     \/ /\ Rejected(tasks)
        /\ Finish(FALSE, fs)
        /\ UNCHANGED tasks
  /\ UNCHANGED <<callVars, inputDir, outputDir, fs, tmpl, passTmpl, cache, embed, mathcache,
                 mdcss, files, pendingRm, cssPending, written, reads, stdoutLog, clock, calls,
                 events, before>>

\* #convertDir: the loop awaiting the #transform promises ends; #writeMathcss
\* follows when a stylesheet was asked for.
AwaitTransform ==
  /\ pc = "transform"
  /\ \/ /\ Fulfilled(tasks)
        /\ WriteMathcss(mdcss)
        /\ Finish(TRUE, fs)
     \/ /\ Rejected(tasks)
        /\ Finish(FALSE, fs)
        /\ UNCHANGED <<cssPending, mathcache>>
  /\ UNCHANGED <<callVars, inputDir, outputDir, fs, tmpl, passTmpl, cache, embed, mdcss,
                 files, tasks, pendingRm, written, reads, stdoutLog, clock, calls, events,
                 before>>

\* --------------------------------------------------------------- watch events
\* The converter is idle: no handler, promise, removal or stylesheet write is under
\* way.  chokidar's events are delivered then.
Idle ==
  /\ \A i \in DOMAIN handlers : handlers[i].st # "run"
  /\ cssPending = {} /\ Settled(tasks) /\ pendingRm = {}

Handler(kind, task) == [kind |-> kind, st |-> "run", task |-> task]

\* A file an author adds to the watched tree.
NewMd == Seg("new", ".md")

\* What every event does to the history and the clock.
Event(f) ==
  /\ events < MaxEvents
  /\ events' = events + 1
  /\ written' = {}
  /\ reads' = {}
  /\ before' = f
  /\ clock' \in Later

\* #watchDir: "add" or "change" of a file that is not the template: renderOnChange
\* starts #transform(changedFile, tmpl) with the template watch resolved.
FileEvent ==
  /\ pc = "watching" /\ Idle
  /\ IsDirAt(fs, Loc(args.input))
  /\ \E p \in {q \in Descendants(fs, inputDir.absPath) : IsFileAt(fs, q)}
              \cup {inputDir.absPath \o <<NewMd>>} :
       /\ p # Loc(TemplateArg)
       /\ fs' = IF Exists(fs, p) THEN fs ELSE Put(fs, p, Data("Hello World!"))
       /\ handlers' = <<Handler("file", Task(fs', "tr", ListedPath(p), tmpl))>>
  /\ Event(fs')
  /\ UNCHANGED <<callVars, inputDir, outputDir, pc, outcome, tmpl, passTmpl, cache, embed,
                 mathcache, mdcss, files, tasks, pendingRm, cssPending, stdoutLog, watcher,
                 calls>>

\* renderOnChange: the operation #transform awaits completes; after #transform,
\* #writeMathcss.
HandlerStep ==
  /\ Running
  /\ handlers[1].kind = "file"
  /\ LET task == handlers[1].task
         e == TaskEffect(task, fs, mdcss, clock, embed)
     IN
     IF task.st = "ok" THEN
       /\ WriteMathcss(mdcss)
       /\ handlers' = <<[handlers[1] EXCEPT !.st = "done"]>>
       /\ UNCHANGED <<fs, mdcss, written, reads>>
     ELSE IF task.st = "fail" THEN
       /\ handlers' = <<[handlers[1] EXCEPT !.st = "failed"]>>
       /\ UNCHANGED <<fs, mdcss, written, reads, cssPending, mathcache>>
     ELSE
       /\ handlers' = <<[handlers[1] EXCEPT !.task.st = e.st]>>
       /\ fs' = e.fs
       /\ mdcss' = e.mdcss
       /\ written' = written \cup e.wr
       /\ reads' = reads \cup e.rd
       /\ UNCHANGED <<cssPending, mathcache>>
  /\ UNCHANGED <<callVars, inputDir, outputDir, pc, outcome, tmpl, passTmpl, cache, embed,
                 files, tasks, pendingRm, stdoutLog, watcher, clock, calls, events, before>>

\* A handler that has returned, fulfilled or rejected (nobody looks at which).
Returned == [kind |-> "file", st |-> "done", task |-> NoTask]

\* #watchDir: "change" of a document arrives while the re-pass of a template
\* change runs: nothing holds the event back, its handler starts #transform at
\* once with the template watch resolved.  One such event per re-pass.
OverlapEvent ==
  /\ pc # "watching"
  /\ Len(handlers) = 1 /\ handlers[1].kind = "template" /\ handlers[1].st = "run"
  /\ \E p \in {q \in Descendants(fs, inputDir.absPath) : IsFileAt(fs, q)} :
       /\ p # Loc(TemplateArg)
       /\ Ext(ListedPath(p)) = ".md"
       /\ handlers' = Append(handlers, Handler("file", Task(fs, "tr", ListedPath(p), tmpl)))
  /\ UNCHANGED <<callVars, inputDir, outputDir, fs, pc, outcome, tmpl, passTmpl, cache, embed,
                 mathcache, mdcss, files, tasks, pendingRm, cssPending, written, reads,
                 stdoutLog, watcher, clock, calls, events, before>>

\* #watchDir: "change" of a document arrives after the re-pass of a template
\* change has ended and all it started is done: renderOnChange starts #transform
\* with the template watch resolved.  One such event per template change.
FollowEvent ==
  /\ pc = "watching" /\ Idle
  /\ Len(handlers) = 1 /\ handlers[1].kind = "template"
  /\ \E p \in {q \in Descendants(fs, inputDir.absPath) : IsFileAt(fs, q)} :
       /\ p # Loc(TemplateArg)
       /\ Ext(ListedPath(p)) = ".md"
       /\ handlers' = Append(handlers, Handler("file", Task(fs, "tr", ListedPath(p), tmpl)))
  /\ written' = {}
  /\ reads' = {}
  /\ before' = fs
  /\ clock' \in Later
  /\ UNCHANGED <<callVars, inputDir, outputDir, fs, pc, outcome, tmpl, passTmpl, cache, embed,
                 mathcache, mdcss, files, tasks, pendingRm, cssPending, stdoutLog, watcher,
                 calls, events>>

\* renderOnChange of that event: the operation #transform awaits completes; after
\* #transform, #writeMathcss.
OverlapStep ==
  /\ Len(handlers) = 2 /\ handlers[2].st = "run"
  /\ LET task == handlers[2].task
         e == TaskEffect(task, fs, mdcss, clock, embed)
     IN
     IF task.st = "ok" THEN
       /\ WriteMathcss(mdcss)
       /\ handlers' = [handlers EXCEPT ![2] = Returned]
       /\ UNCHANGED <<fs, mdcss, written, reads>>
     ELSE IF task.st = "fail" THEN
       /\ handlers' = [handlers EXCEPT ![2] = Returned]
       /\ UNCHANGED <<fs, mdcss, written, reads, cssPending, mathcache>>
     ELSE
       /\ handlers' = [handlers EXCEPT ![2].task.st = e.st]
       /\ fs' = e.fs
       /\ mdcss' = e.mdcss
       /\ written' = written \cup e.wr
       /\ reads' = reads \cup e.rd
       /\ UNCHANGED <<cssPending, mathcache>>
  /\ UNCHANGED <<callVars, inputDir, outputDir, pc, outcome, tmpl, passTmpl, cache, embed,
                 files, tasks, pendingRm, stdoutLog, watcher, clock, calls, events, before>>

\* Mutant of OnUnlink: the handler of "unlink" runs renderOnChange.
OnUnlink_Render(f, p, t) == Handler("file", Task(f, "tr", ListedPath(p), t))

\* #watchDir: the handler of "unlink" does nothing; #watchSingle has none.
OnUnlink(f, p, t) == [Handler("unlink", NoTask) EXCEPT !.st = "done"]

\* "unlink": a watched file, not the template, is removed.
UnlinkEvent ==
  /\ pc = "watching" /\ Idle
  /\ \E p \in {q \in DOMAIN fs : IsFileAt(fs, q) /\ \E w \in watcher : IsPrefix(w, q)} :
       /\ IsDirAt(fs, Loc(args.input)) => p # Loc(TemplateArg)
       /\ fs' = RemoveTree(fs, p)
       /\ handlers' = <<OnUnlink(fs', p, tmpl)>>
  /\ Event(fs')
  /\ UNCHANGED <<callVars, inputDir, outputDir, pc, outcome, tmpl, passTmpl, cache, embed,
                 mathcache, mdcss, files, tasks, pendingRm, cssPending, stdoutLog, watcher,
                 calls>>

\* The other text an author gives the template file.
Edited(d) ==
  IF d.src = "{{date}} {{{content}}}" THEN Data("{{{content}}}")
  ELSE Data("{{date}} {{{content}}}")

\* #watchDir: "change" of the template file: onTemplateChange resolves the template
\* again without the cache, forgets the stylesheet written and runs #convertDir.
TemplateEvent ==
  /\ pc = "watching" /\ Idle
  /\ IsDirAt(fs, Loc(args.input))
  /\ Loc(TemplateArg) \in watcher
  /\ IsFileAt(fs, Loc(TemplateArg))
  /\ fs' = Put(fs, Loc(TemplateArg), Edited(fs[Loc(TemplateArg)].data))
  /\ LET r == ResolveTemplate(fs', cache, TemplateArg, FALSE) IN
     /\ resolved' = Resolved(TemplateArg, FALSE, r)
     /\ passTmpl' = r.tmpl
     /\ cache' = r.cache
     /\ embed' = ConfigureForTemplate(r.tmpl)
  /\ mathcache' = {}
  /\ handlers' = <<Handler("template", NoTask)>>
  /\ pc' = "dir"
  /\ Event(fs')
  /\ UNCHANGED <<linkArgs, inputDir, outputDir, outcome, tmpl, mdcss, files, tasks, pendingRm,
                 cssPending, stdoutLog, watcher, calls>>

\* #watchSingle: "change" of the input file: #convertSingle(file, output, tmpl).
SingleEvent ==
  /\ pc = "watching" /\ Idle
  /\ OpenKind(fs, args.input) = "file"
  /\ handlers' = <<Handler("single", NoTask)>>
  /\ passTmpl' = tmpl
  /\ pc' = "single"
  /\ Event(fs)
  /\ UNCHANGED <<callVars, inputDir, outputDir, fs, outcome, tmpl, cache, embed, mathcache,
                 mdcss, files, tasks, pendingRm, cssPending, stdoutLog, watcher, calls>>

\* convert is called again with the same arguments, once the writes of the call
\* before are on the disk.
Recall ==
  /\ pc = "done" /\ outcome = "resolved"
  /\ cssPending = {}
  /\ calls < MaxCalls
  /\ calls' = calls + 1
  /\ pc' = "start"
  /\ outcome' = "pending"
  /\ files' = {}
  /\ tasks' = NoTasks
  /\ written' = {}
  /\ reads' = {}
  /\ before' = fs
  /\ clock' \in Later
  /\ UNCHANGED <<callVars, inputDir, outputDir, fs, tmpl, passTmpl, cache, embed, mathcache,
                 mdcss, pendingRm, cssPending, stdoutLog, watcher, handlers, events>>

\* ------------------------------------------------------------------- Spec
\* A converter is made and convert or watch is called once.
Init ==
  /\ platform = "posix"
  /\ inputDir = DirCwd
  /\ outputDir = DirCwd
  /\ doc = DirCwd
  /\ html = NoHtml
  /\ rewritten = NoHtml
  /\ args \in Calls
  /\ \E f \in InitialWorlds : EngineNew(f)

Next ==
  \/ Check
  \/ Resolve
  \/ ConfigureSingle
  \/ WriteSingle
  \/ FlushCss
  \/ ConfigureDir
  \/ CleanDir
  \/ RemoveEntry
  \/ ReadDir
  \/ TaskStep
  \/ AwaitPrerender
  \/ AwaitTransform
  \/ FileEvent
  \/ HandlerStep
  \/ TemplateEvent
  \/ SingleEvent
  \/ UnlinkEvent
  \/ Recall

Spec == Init /\ [][Next]_vars

\* ---------------------------------------------------------------- WatchSpec
\* watch is called on a directory, and chokidar's events arrive as they come: to
\* the idle converter, and while the re-pass of a template change runs or after it.
WatchInit == Init /\ args.op = "watch" /\ args.input = Rel(<<InName>>)

WatchNext ==
  \/ Check
  \/ Resolve
  \/ FlushCss
  \/ ConfigureDir
  \/ CleanDir
  \/ RemoveEntry
  \/ ReadDir
  \/ TaskStep
  \/ AwaitPrerender
  \/ AwaitTransform
  \/ FileEvent
  \/ HandlerStep
  \/ TemplateEvent
  \/ UnlinkEvent
  \/ OverlapEvent
  \/ FollowEvent
  \/ OverlapStep

WatchSpec == WatchInit /\ [][WatchNext]_vars

\* --------------------------------------------------------------- SingleSpec
\* convert or watch is called on one file, which lies in the working directory or
\* below it, with the output beside it or in another directory.
SingleCalls ==
  [op : {"convert", "watch"},
   input : {Rel(<<FileMd>>), Rel(<<InName, AMd>>)},
   output : {Undefined, Rel(<<Seg("out", ".html")>>), Rel(<<OutName, Seg("out", ".html")>>)},
   template : {Undefined, Rel(<<TemplateHtml>>)},
   clean : {FALSE}, stdout : BOOLEAN, math : MathOptions, ignore : {{}}]

SingleInit ==
  /\ platform = "posix"
  /\ inputDir = DirCwd
  /\ outputDir = DirCwd
  /\ doc = DirCwd
  /\ html = NoHtml
  /\ rewritten = NoHtml
  /\ args \in SingleCalls
  /\ \E f \in InitialWorlds : EngineNew(f)

SingleNext ==
  \/ Check
  \/ Resolve
  \/ ConfigureSingle
  \/ WriteSingle
  \/ FlushCss
  \/ SingleEvent
  \/ Recall

SingleSpec == SingleInit /\ [][SingleNext]_vars

\* ------------------------------------------------- LinkSpec: replaceHtmlLinks

\* The directories a document of LinkSpec lies in, one below the other.
DirChain == <<Seg("docs", ""), Seg("sub", ""), Seg("deep", ""), Seg("deeper", "")>>
GuideMd == Seg("guide", ".md")
ReadmeHtml == Seg("README", ".html")
GuideHtml == Seg("guide", ".html")
DetailHtml == Seg("detail", ".html")
LogoPng == Seg("logo", ".png")

\* The roots of the test suite (input and output below the working directory) and
\* those of single-file mode (both the working directory).
LinkRoots ==
  { <<NewPathCwd("dir", Rel(<<InName>>)), NewPathCwd("dir", Rel(<<OutName>>))>>,
    <<DirCwd, DirCwd>> }

\* Single reference values.
LinkValues ==
  { Rel(<<ReadmeHtml>>), Abs(<<ReadmeHtml>>),
    Marked(<<ReadmeHtml>>), Marked(<<DirChain[1], GuideHtml>>),
    Marked(<<DirChain[1], DirChain[2], DetailHtml>>),
    Marked(<<Seg("images", ""), LogoPng>>),
    Marked(<<DotDot, ReadmeHtml>>), Marked(<< >>),
    Txt(TRUE, 1, <<ReadmeHtml>>) }

\* Values of several candidates, for srcset and imgsrcset:
\*   "logo.png 1x"            "@/logo.png 1x,@/images/logo.png 2x"
\*   "logo.png 1x, @/logo.png 2x"      "logo.png @/README.html"
SrcsetValues ==
  { << <<PathTok(Rel(<<LogoPng>>)), PlainTok("1x")>> >>,
    << <<PathTok(Marked(<<LogoPng>>)), PlainTok("1x")>>,
       <<PathTok(Marked(<<Seg("images", ""), LogoPng>>)), PlainTok("2x")>> >>,
    << <<PathTok(Rel(<<LogoPng>>)), PlainTok("1x")>>,
       <<PlainTok(""), PathTok(Marked(<<LogoPng>>)), PlainTok("2x")>> >>,
    << <<PathTok(Rel(<<LogoPng>>)), PathTok(Marked(<<ReadmeHtml>>))>> >> }

LinkNames == {"href", "srcset", "imgsrcset", "title"}

LinkItems ==
  { [pre |-> p, name |-> n, ws1 |-> w[1], ws2 |-> w[2], q1 |-> q[1], q2 |-> q[2], value |-> v] :
      p \in {"", "data-"}, n \in LinkNames,
      w \in {"", " "} \X {"", " "}, q \in {"\"", "'"} \X {"\"", "'"},
      v \in { << <<PathTok(t)>> >> : t \in LinkValues } \cup SrcsetValues }

\* A value of several tokens is given to srcset and imgsrcset only.
WellFormedItem(it) ==
  it.name \in {"srcset", "imgsrcset"} \/ (Len(it.value) = 1 /\ Len(it.value[1]) = 1)

\* The document of LinkSpec: guide.md, n directories below the input root, given
\* relative to the root ("rel") or by its absolute path ("abs").
LinkDoc(root, n, form) ==
  LET rel == Rel(SubSeq(DirChain, 1, n) \o <<GuideMd>>) IN
  IF form = "rel" THEN NewPath("file", rel, root)
  ELSE NewPathCwd("file", AbsText(PathResolve(root.absPath, rel)))

LinkInit ==
  /\ platform \in {"posix", "win32"}
  /\ \E r \in LinkRoots : inputDir = r[1] /\ outputDir = r[2]
  /\ \E n \in 0..MaxDepth, form \in {"rel", "abs"} : doc = LinkDoc(inputDir, n, form)
  /\ \E it \in LinkItems : WellFormedItem(it) /\ html = <<it>>
  /\ rewritten = NoHtml
  /\ args = [op |-> "none"]
  /\ EngineNew(MkFs(BaseWorld))

\* html = this.replaceHtmlLinks(html, file)
Rewrite ==
  /\ rewritten = NoHtml
  /\ rewritten' = ReplaceHtmlLinks(html, doc)
  /\ UNCHANGED <<platform, inputDir, outputDir, doc, html, engineVars>>

LinkNext == Rewrite

LinkSpec == LinkInit /\ [][LinkNext]_vars

\* ------------------------------------------------------ claims of LinkSpec
\* The directory of the document, and its directories below the input root.
DocDir == Walk(doc.absPath, <<DotDot>>)
DocDepth == Len(DocDir) - Len(inputDir.absPath)
DocDirBelowRoot == SubSeq(DocDir, Len(inputDir.absPath) + 1, Len(DocDir))

\* A relative path in its shortest form: steps up first, then names, no "." inside.
ShortestFrom(dir, segs) ==
  \/ segs = <<Dot>>
  \/ /\ segs # << >>
     /\ \A i \in DOMAIN segs : segs[i] # Dot
     /\ \A i \in DOMAIN segs : segs[i] = DotDot =>
          /\ \A j \in 1..i : segs[j] = DotDot
          /\ i <= Len(dir)
     /\ LET u == Cardinality({i \in DOMAIN segs : segs[i] = DotDot}) IN
        u > 0 /\ u < Len(segs) => segs[u + 1] # dir[Len(dir) - u + 1]

NoDots(segs) == \A i \in DOMAIN segs : segs[i] \notin {Dot, DotDot}

\* The tokens of a matched item that carry "@/P" with P a relative path text.
MarkedToks(it) ==
  { ck \in {<<c, k>> : c \in DOMAIN it.value, k \in 1..2} :
      /\ ck[2] \in DOMAIN it.value[ck[1]]
      /\ it.value[ck[1]][ck[2]].t = "path"
      /\ StartsWithMarker(it.value[ck[1]][ck[2]].text)
      /\ ~Substring2(it.value[ck[1]][ck[2]].text).abs
      /\ Substring2(it.value[ck[1]][ck[2]].text).marks = 0 }

\* C2: a recognised attribute value "@/P" of a document N directories below the
\* input root is rewritten to the relative path from the document's directory to
\* input-root/P: a relative text in shortest form that, followed from the
\* document's directory, ends at input-root/P; it is N ".." steps followed by P
\* when the document's directory and P share no leading directory; and it is
\* written with forward slashes only.
C2_RewriteRelativeToDocDir ==
  rewritten # NoHtml =>
    \A i \in DOMAIN html : RegexMatches(html[i]) =>
      \A ck \in MarkedToks(html[i]) :
        LET P == Substring2(html[i].value[ck[1]][ck[2]].text)
            out == rewritten[i].value[ck[1]][ck[2]]
        IN /\ out.t = "path"
           /\ ~out.text.abs /\ out.text.marks = 0
           /\ out.text.sep = "/"
           /\ Walk(DocDir, out.text.segs) = Walk(inputDir.absPath, P.segs)
           /\ ShortestFrom(DocDir, out.text.segs)
           /\ ( /\ P.segs # << >> /\ NoDots(P.segs)
                /\ (DocDepth = 0 \/ P.segs[1] # DocDirBelowRoot[1])
                => out.text.segs = Ups(DocDepth) \o P.segs )

\* C2 witness: docs/sub/guide.md with href="@/README.html" on a win32 host has
\* been rewritten to ../../README.html.
C2_Witness ==
  /\ rewritten # NoHtml
  /\ platform = "win32"
  /\ DocDepth = 2
  /\ html[1].name = "href"
  /\ html[1].value = << <<PathTok(Marked(<<ReadmeHtml>>))>> >>
  /\ rewritten[1].value = << <<PathTok(Rel(<<DotDot, DotDot, ReadmeHtml>>))>> >>

\* C3 (as claimed): replaceHtmlLinks returns its input unchanged whenever no
\* attribute value in it begins with "@/", for every recognised attribute, both
\* quote characters and any white space around "=".
C3_UnmarkedUnchanged ==
  (rewritten # NoHtml /\ \A i \in DOMAIN html : ~ValueStartsWithMarker(html[i].value))
    => rewritten = html

\* The whole name of the attribute of an item is one of the listed names: the
\* name that ends before "=" is listed and nothing precedes it.
NameListed(it) == it.pre = "" /\ it.name \in Attrs

\* C26: replaceHtmlLinks leaves every attribute whose name is not a listed name
\* as it is, whatever its value: an item whose whole attribute name (data-src,
\* data-href, title) is not listed is the same item in the result.
C26_UnlistedNamesUntouched ==
  rewritten # NoHtml =>
    \A i \in DOMAIN html : ~NameListed(html[i]) => rewritten[i] = html[i]

\* The position of the URL of a candidate: its first token that is not the empty
\* text a space after the comma leaves (0 if there is none).
UrlAt(cand) ==
  IF \E k \in DOMAIN cand : cand[k] # PlainTok("")
  THEN CHOOSE k \in DOMAIN cand :
         cand[k] # PlainTok("") /\ \A j \in 1..(k - 1) : cand[j] = PlainTok("")
  ELSE 0

\* C27: in a srcset or imgsrcset value only the URL of a candidate is rewritten.
\* The result has the candidates and the tokens of the value; every token other
\* than the URL of its candidate is the token it was, also when it begins with
\* "@/"; and the URL is the token it was unless it begins with "@/".
C27_OnlyUrlOfCandidateRewritten ==
  rewritten # NoHtml =>
    \A i \in DOMAIN html :
      (RegexMatches(html[i]) /\ html[i].name \in {"srcset", "imgsrcset"}) =>
        /\ DOMAIN rewritten[i].value = DOMAIN html[i].value
        /\ \A c \in DOMAIN html[i].value :
             /\ DOMAIN rewritten[i].value[c] = DOMAIN html[i].value[c]
             /\ \A k \in DOMAIN html[i].value[c] :
                  (\/ k # UrlAt(html[i].value[c])
                   \/ html[i].value[c][k].t # "path"
                   \/ ~StartsWithMarker(html[i].value[c][k].text))
                    => rewritten[i].value[c][k] = html[i].value[c][k]

\* ------------------------------------------------------------ claims of Spec
\* The input and output roots of the call, and whether the call is in tree mode.
InputLoc == Loc(args.input)
OutputLoc == Loc(OutputArg)
TreeMode == IsDirAt(before, InputLoc)

\* The mirrored output location of a source at p under the input root: the same
\* relative path under the output root, a final .md (any case) become .html.
Mirror(p) ==
  LET rel == SubSeq(p, Len(InputLoc) + 1, Len(p))
      last == rel[Len(rel)]
  IN OutputLoc \o SubSeq(rel, 1, Len(rel) - 1)
       \o <<IF ToLowerCase(last.ext) = ".md" THEN Seg(last.base, ".html") ELSE last>>

\* A tree pass has ended fulfilled: convert resolved, watch reached the watcher, or
\* the pass of a template change ended.
PassDone ==
  /\ TreeMode
  /\ \/ pc = "done" /\ outcome = "resolved"
     \/ pc = "watching" /\ handlers = << >>
     \/ pc = "watching" /\ handlers[1].kind = "template" /\ handlers[1].st = "done"

\* C1: when convert of a directory has resolved, every regular file at R under the
\* input root has its output at output-root/R (.md replaced by .html), and every
\* location the call opened for writing lies under the output root.
C1_OutputsMirrored ==
  (pc = "done" /\ outcome = "resolved" /\ calls = 1 /\ TreeMode) =>
    /\ \A p \in Descendants(before, InputLoc) :
         IsFileAt(before, p) => IsFileAt(fs, Mirror(p))
    /\ \A p \in written : IsPrefix(OutputLoc, p)

\* C4: in the #transform phase a promise awaits the write of a rendering only for
\* a regular file with extension .md, awaits a copy only for another regular
\* file, and is fulfilled at once, with nothing done, for a directory.
C4_EntriesClassified ==
  \A i \in DOMAIN tasks :
    tasks[i].ph = "tr" =>
      /\ tasks[i].st = "write" =>
           IsFileAt(fs, tasks[i].file.absPath) /\ Ext(tasks[i].file) = ".md"
      /\ tasks[i].st = "copy" =>
           IsFileAt(fs, tasks[i].file.absPath) /\ Ext(tasks[i].file) # ".md"
      /\ IsDirAt(fs, tasks[i].file.absPath) => tasks[i].st = "ok"

\* C5: with clean set, nothing is opened for writing while removals of cleanDir are
\* to come; and when the pass has ended, an output root that existed is still a
\* directory, and an entry that was below it before is there only if the pass
\* wrote it (or something below it) again.
C5_CleanRemovesOldContents ==
  /\ (pc \in {"clean", "cleaning"} \/ pendingRm # {}) => written = {}
  /\ (PassDone /\ args.clean /\ IsDirAt(before, OutputLoc)) =>
       /\ IsDirAt(fs, OutputLoc)
       /\ \A p \in Descendants(before, OutputLoc) :
            Exists(fs, p) => \E w \in written : IsPrefix(p, w)

\* C5 witness: convert with clean has resolved; the unrelated file and directory of
\* the output root are gone and the stylesheet that was there was written again.
C5_Witness ==
  /\ pc = "done" /\ outcome = "resolved" /\ TreeMode /\ args.clean
  /\ Exists(before, OutputRoot \o <<OldTxt>>)
  /\ Exists(before, OutputRoot \o <<OldDir, OldTxt>>)
  /\ ~Exists(fs, OutputRoot \o <<OldTxt>>)
  /\ ~Exists(fs, OutputRoot \o <<OldDir>>)
  /\ OutputRoot \o <<MathCss>> \in written
  /\ IsFileAt(fs, OutputRoot \o <<MathCss>>)

\* Two documents of the listing are rendered to the same location.
Collision ==
  \E i, j \in DOMAIN tasks :
    /\ i # j
    /\ Ext(tasks[i].file) = ".md" /\ Ext(tasks[j].file) = ".md"
    /\ TransformDst(tasks[i].file).absPath = TransformDst(tasks[j].file).absPath

\* A later convert of the same directory, without clean, has resolved.
SecondRunDone ==
  pc = "done" /\ outcome = "resolved" /\ calls > 1 /\ TreeMode /\ ~args.clean

BadTemplate ==
  /\ args.template # Undefined
  /\ \/ IsBlank(args.template)
     \/ ~IsPredefined(args.template) /\ ~IsFileAt(before, Loc(args.template))

\* C7: when the input exists and the arguments are invalid (a directory input
\* with no output or with stdout, a blank template, a template that is neither
\* built in nor an existing file), the filesystem stays as it was, no watcher
\* is started, and the call ends with an MdHtmlError.
C7_ValidationFirst ==
  (/\ calls = 1
   /\ Exists(before, InputLoc)
   /\ \/ TreeMode /\ (args.output = Undefined \/ IsBlank(args.output))
      \/ TreeMode /\ args.stdout
      \/ BadTemplate) =>
    /\ fs = before
    /\ watcher = {}
    /\ pc = "done" => outcome = "MdHtmlError"

\* C8: in single-file mode, with a valid template, convert with the empty string
\* as output resolves with the document on standard output and no file written;
\* with another output that is an existing directory it ends with an MdHtmlError
\* and writes nothing.
C8_OutputIsDirectory ==
  (/\ pc = "done" /\ calls = 1 /\ args.op = "convert"
   /\ IsFileAt(before, InputLoc) /\ ~BadTemplate) =>
    /\ args.output = EmptyText =>
         outcome = "resolved" /\ stdoutLog # << >> /\ fs = before
    /\ (args.output # EmptyText /\ ~args.stdout /\ IsDirAt(before, OutputLoc)) =>
         outcome = "MdHtmlError" /\ fs = before

\* C9: when the input does not exist the call ends resolved (the miss reported)
\* or with an MdHtmlError, the filesystem is as it was and no watcher is started.
C9_MissingInputReported ==
  (pc = "done" /\ ~Exists(before, InputLoc)) =>
    /\ outcome \in {"resolved", "MdHtmlError"}
    /\ fs = before
    /\ watcher = {}

\* C10: in tree-mode watch, after an add or change event for a file F that is not
\* the template, the only locations opened for writing are F's mirrored output
\* and the stylesheet destination.
C10_OnlyMirroredOutputWritten ==
  (handlers # << >> /\ handlers[1].kind = "file") =>
    written \subseteq
      {Mirror(handlers[1].task.file.absPath)} \cup
      (IF args.math = Undefined THEN {} ELSE {RelativeFromOutput(args.math).absPath})

\* The pass a template change started has ended fulfilled.
TemplatePassDone ==
  /\ pc = "watching" /\ handlers # << >>
  /\ handlers[1].kind = "template" /\ handlers[1].st = "done"

\* The documents of the input tree: the regular files with extension .md.
Documents(f) ==
  {p \in Descendants(f, InputLoc) : IsFileAt(f, p) /\ Ext(ListedPath(p)) = ".md"}

C12_UnlinkDoesNothing ==
  /\ []((handlers # << >> /\ handlers[1].kind = "unlink") =>
          (written = {} /\ fs = before /\ cssPending = {} /\ ~Running))
  /\ [][(events' # events /\ DOMAIN fs' # DOMAIN fs /\ DOMAIN fs' \subseteq DOMAIN fs) =>
          /\ handlers'[1].kind = "unlink"
          /\ cache' = cache
          /\ mathcache' = mathcache
          /\ \A q \in DOMAIN fs' : q \in DOMAIN fs /\ fs'[q] = fs[q]
          /\ \A q \in DOMAIN fs : q \in DOMAIN fs' \/ IsFileAt(fs, q)]_vars

\* C12 witness: in tree-mode watch a document is removed after its output was
\* written, and the output is still there.
C12_Witness ==
  /\ handlers # << >> /\ handlers[1].kind = "unlink"
  /\ TreeMode
  /\ \E p \in Documents(fs) \cup {InputRoot \o <<AMd>>, InputRoot \o <<DocsName, CMd>>} :
       /\ ~Exists(fs, p)
       /\ IsFileAt(fs, TransformDst(ListedPath(p)).absPath)

\* An ignore pattern of the call matches the name of the file at p.
Ignored(p) == \E g \in args.ignore : p[Len(p)] = g.segs[Len(g.segs)]

\* C13: when convert of a directory with an ignore pattern has resolved, every
\* source file the pattern does not match has its mirrored output, and a source
\* file the pattern matches has none: nothing is at its mirrored location and
\* no output of it was written.
C13_IgnoredSkipped ==
  (pc = "done" /\ outcome = "resolved" /\ calls = 1 /\ TreeMode /\ args.ignore # {}) =>
    \A p \in Descendants(before, InputLoc) :
      IsFileAt(before, p) =>
        IF Ignored(p)
        THEN /\ ~Exists(fs, Mirror(p))
             /\ TransformDst(ListedPath(p)).absPath \notin written
        ELSE IsFileAt(fs, Mirror(p))
\* The positions of a tree pass (#convertDir).
TreePass == pc \in {"dir", "clean", "cleaning", "list", "prerender", "transform"}

\* C19: in a tree pass the stylesheet write of the pass (not the one of a
\* per-file handler that runs beside it) starts only in the
\* step that ends the loop over the #transform promises, when every promise of
\* the pass is fulfilled; the stylesheet handed to the write is the renderer's,
\* and it holds the math of every document of the pass.
C19_StylesheetAfterAllTransforms ==
  [][(/\ TreePass
      /\ cssPending' \ cssPending # {} \/ mathcache' # mathcache
      /\ Len(handlers) = 2 => handlers'[2] = handlers[2]) =>
       /\ pc = "transform"
       /\ \A p \in DOMAIN tasks : tasks[p].ph = "tr" /\ tasks[p].st = "ok"
       /\ DOMAIN tasks = files
       /\ \A c \in cssPending' \ cssPending :
            /\ c.css = GetMathcss(mdcss)
            /\ \A p \in DOMAIN tasks :
                 (IsFileAt(fs, p) /\ Ext(tasks[p].file) = ".md" /\ HasMath(fs[p].data.src)) =>
                   fs[p].data.src \in c.css]_vars

\* C19 happens: a tree pass over two entries, one of them a document with math,
\* has ended and its stylesheet write was started with that math in it.
C19_Witness ==
  /\ TreeMode /\ pc = "done" /\ outcome = "resolved"
  /\ Cardinality(DOMAIN tasks) >= 2
  /\ \E p \in DOMAIN tasks : Ext(tasks[p].file) = ".md" /\ IsFileAt(fs, p) /\ HasMath(fs[p].data.src)
  /\ \E c \in cssPending : "# $x$" \in c.css

\* The re-pass of a template change is under way.
RepassRunning == handlers # << >> /\ handlers[1].kind = "template" /\ handlers[1].st = "run"

\* C20: in tree-mode watch, while the re-pass of a template change is under way
\* no per-file event that arrived after it is processed: no handler of such an
\* event has started its transform or written anything.
C20_RepassNotInterleaved ==
  RepassRunning => \A i \in DOMAIN handlers : i > 1 => handlers[i].kind # "file"

\* C21: in tree-mode watch, a per-file event that arrives after a template change
\* was fully processed renders its document with the template the change loaded
\* (the one the cache holds), not with the one loaded when watch started.
C21_LaterEventsUseReloaded ==
  [][(/\ Len(handlers) = 1 /\ handlers[1].kind = "template" /\ handlers[1].st = "done"
      /\ Len(handlers') = 2 /\ handlers'[2].kind = "file") =>
       /\ handlers'[2].task.t = cache[TemplateArg]
       /\ handlers'[2].task.t = passTmpl]_vars

\* The stylesheet file of the call: the file at the requested destination.
MathDst == RelativeFromOutput(args.math).absPath

\* C22: the cache of #writeMathcss is the content of the stylesheet file.
\* Whenever a stylesheet destination is requested, a content is cached, the call
\* has resolved and no write started by #writeMathcss is still pending, the
\* stylesheet file exists and holds exactly the cached content.
C22_CacheIsWrittenContent ==
  (/\ pc = "done" /\ outcome = "resolved"
   /\ args.math # Undefined /\ mathcache # {} /\ cssPending = {}) =>
     /\ IsFileAt(fs, MathDst)
     /\ fs[MathDst].data.css = mathcache

\* C23: a convert call that has settled has no write in flight.
\* Whenever a call of convert has resolved or rejected, every per-file
\* transform of its pass has settled and no stylesheet write started by it is
\* still pending.
C23_SettledMeansWritten ==
  (args.op = "convert" /\ pc = "done" /\ outcome # "pending") =>
     /\ Settled(tasks)
     /\ cssPending = {}

\* C24: the outputs of a tree pass are pairwise distinct.
\* While a tree pass runs, no two distinct entries of its listing are
\* transformed to the same output location, and the requested stylesheet
\* destination is not the output location of an entry.
C24_OneWriterPerOutput ==
  TreePass =>
    /\ \A i, j \in DOMAIN tasks :
         i # j => TransformDst(tasks[i].file).absPath # TransformDst(tasks[j].file).absPath
    /\ args.math # Undefined =>
         \A i \in DOMAIN tasks : TransformDst(tasks[i].file).absPath # MathDst

\* C25: the roots of PathProvider are set by the configure call that starts a
\* conversion and by nothing else.
\* In every step: the configure of single-file mode leaves both roots the working
\* directory; the configure of tree mode leaves them the resolved input and output
\* directories and is taken with no transform of an earlier pass unsettled; every
\* other step leaves both roots as they are; and once the watcher of a tree-mode
\* session exists, no step, of a re-pass included, changes the value of a root.
C25_RootsSetByConfigure ==
  [][/\ (pc = "single" /\ pc' # "single") =>
          inputDir' = DirCwd /\ outputDir' = DirCwd
     /\ (pc = "dir" /\ pc' # "dir") =>
          /\ inputDir' = NewPathCwd("dir", args.input)
          /\ outputDir' = NewPathCwd("dir", OutputArg)
          /\ Settled(tasks)
     /\ pc \notin {"single", "dir"} => UNCHANGED <<inputDir, outputDir>>
     /\ (watcher # {} /\ IsDirAt(before, InputLoc)) =>
          /\ UNCHANGED <<inputDir, outputDir>>
          /\ inputDir = NewPathCwd("dir", args.input)
          /\ outputDir = NewPathCwd("dir", OutputArg)]_vars

\* C25 (witness): a template-change re-pass of a tree-mode watch session has been
\* configured and is running, the roots being the directories set at start-up.
C25_Witness ==
  /\ watcher # {} /\ RepassRunning /\ pc \in {"list", "prerender", "transform"}
  /\ inputDir = NewPathCwd("dir", args.input)
  /\ outputDir = NewPathCwd("dir", OutputArg)
  /\ inputDir # DirCwd

\* The paths P of the references "@/P" of a document.
LinkTargets == {<<ReadmeHtml>>, <<Seg("images", ""), LogoPng>>}

\* What replaceLink makes of "@/P" in a document rendered with the links relative
\* to `dir`, followed from the directory of the file at q.
FollowedFrom(q, dir, P) ==
  Walk(Walk(q, <<DotDot>>), PathRelative(dir, Walk(inputDir.absPath, P)).segs)

\* C28: a rewritten "@/P" leads to root/P from the directory of the output.
\* For every rendered document a call has written and every P, the reference
\* "@/P" as rewritten in it, followed from the directory of the written file,
\* ends at P under the input root or under the output root.
C28_LinksLeadToRoot ==
  \A q \in written :
    (IsFileAt(fs, q) /\ fs[q].data.links # << >>) =>
      \A P \in LinkTargets :
        FollowedFrom(q, fs[q].data.links, P)
          \in {Walk(inputDir.absPath, P), Walk(outputDir.absPath, P)}

\* ======================================================= TemplateProvider
\* The specification of TemplateProvider alone: one provider, the calls of
\* resolveTemplate made on it, and the template files changing between the calls.

\* The filesystems a provider starts on: template.html, and a file named none or
\* not.
TemplateWorlds ==
  { MkFs(BaseWorld),
    MkFs(BaseWorld \cup { <<Cwd \o <<Seg("none", "")>>, FileNode(Data("{{date}} {{{content}}}"))>> }) }

\* The identifiers given to resolveTemplate: none given, blank, two built-in names,
\* a file, a missing file and a directory.
TemplateIds ==
  { Undefined, Rel(<<Space>>), NameNone, NamePlain, Rel(<<TemplateHtml>>),
    Rel(<<Seg("nofile", ".html")>>), Rel(<<InName>>) }

\* The files resolveTemplate can read.
TemplateFiles(f) == {p \in {Loc(t) : t \in TemplateIds \ {Undefined}} : IsFileAt(f, p)}

TemplateInit ==
  /\ platform = "posix"
  /\ inputDir = DirCwd
  /\ outputDir = DirCwd
  /\ doc = DirCwd
  /\ html = NoHtml
  /\ rewritten = NoHtml
  /\ args = [op |-> "none"]
  /\ \E f \in TemplateWorlds : EngineNew(f)

templateVars == <<platform, inputDir, outputDir, doc, html, rewritten, args, pc, outcome, tmpl,
                  passTmpl, embed, mathcache, mdcss, files, tasks, pendingRm, cssPending, written,
                  reads, stdoutLog, watcher, handlers, clock, calls, events, before, made,
                  cli>>

\* await provider.resolveTemplate(t, { useCache })
TemplateResolve ==
  /\ \E t \in TemplateIds, useCache \in BOOLEAN :
       LET r == ResolveTemplate(fs, cache, t, useCache) IN
       /\ resolved' = Resolved(t, useCache, r)
       /\ cache' = r.cache
  /\ UNCHANGED <<fs, templateVars>>

\* fs.writeFile(file, other text) between two resolutions
TemplateEdit ==
  /\ \E p \in TemplateFiles(fs) : fs' = Put(fs, p, Edited(fs[p].data))
  /\ UNCHANGED <<cache, resolved, templateVars>>

\* A template file is removed between two resolutions.
TemplateRemove ==
  /\ \E p \in TemplateFiles(fs) : fs' = RemoveTree(fs, p)
  /\ UNCHANGED <<cache, resolved, templateVars>>

TemplateNext == TemplateResolve \/ TemplateEdit \/ TemplateRemove

TemplateSpec == TemplateInit /\ [][TemplateNext]_vars

\* C14: resolveTemplate tries the built-in names before the file, whatever
\* useCache is: a built-in name yields the built-in template even when a file of
\* that name exists; an identifier that is neither a built-in name nor a file
\* yields a warning and the default template, and the cache is left as it was.
C14_BuiltInsBeforeFile ==
  [][resolved' # resolved =>
       LET t == resolved'.template IN
       /\ (t # Undefined /\ IsPredefined(t)) => resolved'.tmpl = PredefinedTemplates[t]
       /\ (t # Undefined /\ ~IsBlank(t) /\ ~IsPredefined(t) /\ ~Exists(fs, Loc(t))
             /\ ~(resolved'.useCache /\ t \in DOMAIN cache)) =>
            (resolved'.warn /\ resolved'.tmpl = TemplateDefault /\ cache' = cache)]_vars

\* C15: a cached resolution of an identifier held in the cache returns the held
\* template, reads no file and leaves the cache alone, though the file changed;
\* a resolution with useCache = false of an existing file reads it and puts what
\* it read in the cache; the cache changes in no other step, and then only at
\* the identifier resolved.
C15_CacheUntilReload ==
  [][LET t == resolved'.template IN
     /\ (resolved' # resolved /\ t # Undefined /\ ~IsBlank(t)) =>
          /\ (resolved'.useCache /\ t \in DOMAIN cache) =>
               (resolved'.tmpl = cache[t] /\ ~resolved'.read /\ cache' = cache)
          /\ (~resolved'.useCache /\ IsFileAt(fs, Loc(t))) =>
               /\ resolved'.read
               /\ resolved'.tmpl = HtmlTemplateOf(fs[Loc(t)].data)
               /\ t \in DOMAIN cache' /\ cache'[t] = resolved'.tmpl
     /\ cache' # cache =>
          /\ resolved'.read /\ fs' = fs
          /\ \A n \in DOMAIN cache : n \in DOMAIN cache' /\ (n # t => cache'[n] = cache[n])]_vars

\* C15 happens: template.html was loaded, then edited, and a cached resolution
\* returned the text loaded before the edit without a read.
C15_Witness ==
  LET t == Rel(<<TemplateHtml>>) IN
  /\ resolved.template = t /\ resolved.useCache /\ ~resolved.read
  /\ IsFileAt(fs, Loc(t))
  /\ resolved.tmpl = cache[t]
  /\ resolved.tmpl # HtmlTemplateOf(fs[Loc(t)].data)

\* ================================================= PathProvider, ResolvedPath
\* The specification of the path classes alone: a PathProvider that is configured
\* and asked for paths, and ResolvedPath.new called with a text and an anchor.

\* The texts given to relativeFromInput / relativeFromOutput:
\*   README.html  docs/guide.html  /README.html  ""  @/  @/README.html
\*   @/../README.html  @/@/README.html  @//README.html
PathTexts ==
  { Rel(<<ReadmeHtml>>), Rel(<<DirChain[1], GuideHtml>>), Abs(<<ReadmeHtml>>), EmptyText,
    Marked(<< >>), Marked(<<ReadmeHtml>>), Marked(<<DotDot, ReadmeHtml>>),
    Txt(FALSE, 2, <<ReadmeHtml>>), Marked(<<EmptySeg, ReadmeHtml>>) }

\* The texts given to ResolvedPath.new:
\*   ""  " "  file.md  " a.md"  "a.md "  .././//file.md  input/  /input/file.md
\*   ../../../file.md  "./ /file.md" (file.md in a directory named " ")
NewTexts ==
  { EmptyText, Rel(<<Space>>), Rel(<<FileMd>>), Rel(<<Seg(" a", ".md")>>),
    Rel(<<Seg("a", ".md ")>>), Rel(<<DotDot, Dot, EmptySeg, EmptySeg, FileMd>>),
    Rel(<<InName, EmptySeg>>), Abs(<<InName, FileMd>>),
    Rel(<<DotDot, DotDot, DotDot, FileMd>>), Rel(<<Dot, Space, FileMd>>) }

\* The anchors given to it: none, "", a relative and an absolute string, a DirPath.
Anchors ==
  { Undefined, EmptyText, Rel(<<InName>>), Abs(<<OutName>>), NewPathCwd("dir", Rel(<<DocsName>>)) }

\* srcDir?.toString() ?? process.cwd(), as path.resolve sees it
AnchorDir(anchor) ==
  IF anchor = Undefined THEN Cwd
  ELSE IF "kind" \in DOMAIN anchor THEN anchor.absPath
  ELSE PathResolve(Cwd, anchor)

\* ResolvedPath.new(input, srcDir) for a string input and any srcDir
NewResolved(kind, input, anchor) == Rp(kind, input, PathResolve(AnchorDir(anchor), input))

Made(op, t, anchor, p) == [op |-> op, text |-> t, anchor |-> anchor, path |-> p]

PathInit ==
  /\ platform \in {"posix", "win32"}
  /\ inputDir = DirCwd
  /\ outputDir = DirCwd
  /\ doc = DirCwd
  /\ html = NoHtml
  /\ rewritten = NoHtml
  /\ args = [op |-> "none"]
  /\ EngineNew(MkFs(BaseWorld))

pathVars == <<platform, doc, html, rewritten, fs, args, pc, outcome, tmpl, passTmpl, cache, embed,
              mathcache, mdcss, files, tasks, pendingRm, cssPending, written, reads, stdoutLog,
              watcher, handlers, clock, calls, events, before, resolved, cli>>

\* PathProvider.configure(input, output) / configureForSingle()
PathConfigure ==
  /\ \E r \in LinkRoots : inputDir' = r[1] /\ outputDir' = r[2]
  /\ UNCHANGED <<made, pathVars>>

\* provider.relativeFromInput(t)
FromInput ==
  /\ \E t \in PathTexts : made' = Made("relativeFromInput", t, Undefined, RelativeFromInput(t))
  /\ UNCHANGED <<inputDir, outputDir, pathVars>>

\* provider.relativeFromOutput(t)
FromOutput ==
  /\ \E t \in PathTexts : made' = Made("relativeFromOutput", t, Undefined, RelativeFromOutput(t))
  /\ UNCHANGED <<inputDir, outputDir, pathVars>>

\* ResolvedPath.new(t, anchor)
PathNew ==
  /\ \E t \in NewTexts, a \in Anchors : made' = Made("new", t, a, NewResolved("file", t, a))
  /\ UNCHANGED <<inputDir, outputDir, pathVars>>

\* from.toString() as path.relative sees it: a string is resolved from the working
\* directory, a ResolvedPath gives its absPath.
PathFromAnchor(p, anchor) == PathRelative(AnchorDir(anchor), p.absPath)

\* ResolvedPath.new(t, anchor).pathFrom(anchor), and ResolvedPath.new of the result
\* with the same anchor.
PathRoundTrip ==
  /\ \E t \in NewTexts, a \in Anchors \ {Undefined}, k \in {"file", "dir"} :
       LET p == NewResolved(k, t, a)
           r == PathFromAnchor(p, a)
       IN made' = Made("pathFrom", t, a, [first |-> p, from |-> r, back |-> NewResolved(k, r, a)])
  /\ UNCHANGED <<inputDir, outputDir, pathVars>>

\* this.getPath(dir) for a string or a DirPath
GetPathAnchor(p, anchor) ==
  IF IsAbsolute(p) THEN AbsText(p.absPath) ELSE PathFromAnchor(p, anchor)

\* FilePath.chdir(dir) / DirPath.chdir(dir)
Chdir(p, anchor) == NewResolved(p.kind, GetPathAnchor(p, anchor), anchor)

\* ResolvedPath.new(t, a).chdir(b); the same after chdir(a); and ResolvedPath.new
\* of pathFrom(b) with b.
PathChdir ==
  /\ \E t \in NewTexts, a \in Anchors \ {Undefined}, b \in Anchors \ {Undefined},
        k \in {"file", "dir"} :
       LET p == NewResolved(k, t, a) IN
       made' = Made("chdir", t, a,
                    [to |-> b, first |-> p, moved |-> Chdir(p, b),
                     twice |-> Chdir(Chdir(p, a), b),
                     viaFrom |-> NewResolved(k, PathFromAnchor(p, b), b)])
  /\ UNCHANGED <<inputDir, outputDir, pathVars>>

PathNext ==
  PathConfigure \/ FromInput \/ FromOutput \/ PathNew \/ PathRoundTrip \/ PathChdir

PathSpec == PathInit /\ [][PathNext]_vars

\* C16: relativeFromInput / relativeFromOutput resolve a text against the input /
\* output root; "@/X" resolves to where X resolves against that root, and with
\* the marker the result is root/X, whether X is relative or absolute text.
C16_MarkerMeansRoot ==
  [][(made' # made /\ made'.op \in {"relativeFromInput", "relativeFromOutput"}) =>
       LET root == IF made'.op = "relativeFromInput" THEN inputDir ELSE outputDir
           t == made'.text
           X == IF StartsWithMarker(t) THEN Substring2(t) ELSE t
       IN /\ made'.path.absPath = PathResolve(root.absPath, X)
          /\ StartsWithMarker(t) => made'.path.absPath = Walk(root.absPath, TextSegs(X))]_vars

\* C17: ResolvedPath.new(text, anchor) has for absPath the absolute, normalized
\* join of the anchor (the working directory when none or "" is given) and the
\* text, and for raw the trimmed text; for the empty text absPath is the anchor.
C17_NewJoinsAnchorAndText ==
  [][(made' # made /\ made'.op = "new") =>
       LET dir == IF made'.anchor \in {Undefined, EmptyText} THEN Cwd ELSE AnchorDir(made'.anchor)
       IN /\ made'.path.absPath = PathResolve(dir, made'.text)
          /\ made'.path.raw = Trim(made'.text)
          /\ made'.text = EmptyText => made'.path.absPath = dir]_vars

\* The normalized form of a relative text: path.normalize of it, "." for the
\* empty text.
Normalized(t) ==
  LET s == NormRel(<< >>, TextSegs(t)) IN IF s = << >> THEN <<Dot>> ELSE s

\* C29: ResolvedPath.new(text, A).pathFrom(A) resolves against A to the location
\* text resolves to against A, and for a relative text it is the normalized text.
C29_PathFromRoundTrip ==
  [][(made' # made /\ made'.op = "pathFrom") =>
       LET A == AnchorDir(made'.anchor)
           t == made'.text
           r == made'.path.from
       IN /\ PathResolve(A, r) = PathResolve(A, t)
          /\ made'.path.back.absPath = PathResolve(A, t)
          /\ ~PathIsAbsolute(t) => r.segs = Normalized(t)]_vars

\* C30: chdir never moves a path.  new(text, A).chdir(B) is at the location of
\* new(text, A) and of new(new(text, A).pathFrom(B), B), has its file/dir tag,
\* and chdir(A) followed by chdir(B) has the absPath and the raw of chdir(B).
C30_ChdirKeepsLocation ==
  [][(made' # made /\ made'.op = "chdir") =>
       LET c == made'.path IN
       /\ c.moved.absPath = c.first.absPath
       /\ c.moved.absPath = c.viaFrom.absPath
       /\ c.moved.kind = c.first.kind
       /\ c.twice.absPath = c.moved.absPath
       /\ c.twice.raw = c.moved.raw]_vars

\* ============================================================ command line
\* The specification of the command line: program.action of index.ts, in the two
\* forms the file holds (1: lines 21-55, 2: lines 92-118), with the call of the
\* converter reduced to how it ends.

\* What --config names: nothing given, no such file, a directory, a file that is
\* not JSON, JSON that is not an object, a config object without and with input.
ConfigFiles == {"", "missing", "directory", "notjson", "notobject", "object", "withinput"}

\* loadConfigFile(file): the JsonConfig, or the message of the MdHtmlError thrown.
LoadConfigFile(file) ==
  CASE file = "missing"   -> [ok |-> FALSE, message |-> "config file not found: <file>"]
    [] file = "directory" -> [ok |-> FALSE, message |-> "config file error: (<file>) <e.message>"]
    [] file = "notjson"   -> [ok |-> FALSE, message |-> "failed to parse config JSON: <file>"]
    [] file = "notobject" -> [ok |-> FALSE, message |-> "invalid config format: <file>"]
    [] file = "withinput" -> [ok |-> TRUE, config |-> [input |-> Rel(<<InName>>)]]
    [] OTHER              -> [ok |-> TRUE, config |-> [input |-> Undefined]]

\* The [input] argument: not given, white space, a path.
CliInputs == {Undefined, Rel(<<Space>>), Rel(<<FileMd>>)}

\* How converter.convert / converter.watch end: fulfilled, or rejected with an
\* MdHtmlError or with another Error.
ConverterEnds ==
  { [outcome |-> "resolved", message |-> ""],
    [outcome |-> "MdHtmlError", message |-> "input file cannot be empty"],
    [outcome |-> "MdHtmlError", message |-> "template not found: <template>"],
    [outcome |-> "Error", message |-> "ENOENT: no such file or directory"] }

\* console.error(`Error: ${err.message}`)
ErrorLine(message) == [text |-> "Error: ", message |-> message, stack |-> FALSE]
\* What node prints for a rejection nothing handles: the error with its stack.
Uncaught(name, message) == [text |-> name, message |-> message, stack |-> TRUE]

\* A run of the command line that has not started.  Form 2 declares <input>, and
\* commander stops a run without it before the action.
CliRuns ==
  { [pc |-> "start", form |-> f, config |-> c, input |-> i, watch |-> w,
     fileConfig |-> [input |-> Undefined], raised |-> "", message |-> "",
     stderr |-> << >>, exit |-> -1] :
       f \in {1, 2}, c \in ConfigFiles, i \in CliInputs \ {Undefined}, w \in BOOLEAN }
  \cup
  { [pc |-> "start", form |-> 1, config |-> c, input |-> Undefined, watch |-> w,
     fileConfig |-> [input |-> Undefined], raised |-> "", message |-> "",
     stderr |-> << >>, exit |-> -1] : c \in ConfigFiles, w \in BOOLEAN }

CliInit ==
  /\ platform = "posix"
  /\ inputDir = DirCwd
  /\ outputDir = DirCwd
  /\ doc = DirCwd
  /\ html = NoHtml
  /\ rewritten = NoHtml
  /\ args = [op |-> "none"]
  /\ \E r \in CliRuns :
       /\ fs = MkFs(BaseWorld) /\ pc = "start" /\ outcome = "pending" /\ tmpl = NoTmpl
       /\ passTmpl = NoTmpl /\ cache = PredefinedTemplates /\ embed = FALSE /\ mathcache = {}
       /\ mdcss = {} /\ files = {} /\ tasks = NoTasks /\ pendingRm = {} /\ cssPending = {}
       /\ written = {} /\ reads = {} /\ stdoutLog = << >> /\ watcher = {} /\ handlers = << >>
       /\ clock = 0 /\ calls = 1 /\ events = 0 /\ before = fs /\ resolved = NoResolve
       /\ made = NoPath
       /\ cli = r

cliVars == <<platform, inputDir, outputDir, doc, html, rewritten, fs, args, pc, outcome, tmpl,
             passTmpl, cache, embed, mathcache, mdcss, files, tasks, pendingRm, cssPending,
             written, reads, stdoutLog, watcher, handlers, clock, calls, events, before,
             resolved, made>>

\* An error leaves the action: nothing handles the rejected promise, node prints
\* it with its stack and the process ends with status 1.
Propagate(name, message) ==
  [cli EXCEPT !.pc = "exit", !.raised = name, !.message = message,
              !.stderr = Append(@, Uncaught(name, message)), !.exit = 1]

\* The catch block: an MdHtmlError is printed as one line and the action returns,
\* so the process ends with status 0; any other error is thrown again.
Catch(name, message) ==
  IF name = "MdHtmlError"
  THEN [cli EXCEPT !.pc = "exit", !.raised = name, !.message = message,
                   !.stderr = Append(@, ErrorLine(message)), !.exit = 0]
  ELSE Propagate(name, message)

\* const fileConfig = options.config ? await loadConfigFile(options.config) : {}
CliLoadConfig ==
  /\ cli.pc = "start"
  /\ IF cli.config = "" THEN cli' = [cli EXCEPT !.pc = "merge"]
     ELSE LET r == LoadConfigFile(cli.config) IN
          IF r.ok THEN cli' = [cli EXCEPT !.pc = "merge", !.fileConfig = r.config]
          ELSE cli' = Propagate("MdHtmlError", r.message)
  /\ UNCHANGED cliVars

\* merged.input ?? input ?? ""
ResolvedInput ==
  IF cli.form = 2 THEN cli.input
  ELSE IF cli.fileConfig.input # Undefined THEN cli.fileConfig.input
  ELSE IF cli.input # Undefined THEN cli.input
  ELSE EmptyText

\* mergeOptions, the check of the input (form 1, inside try), intoConvOptions and
\* new MdHtmlConverter
CliMerge ==
  /\ cli.pc = "merge"
  /\ IF cli.form = 1 /\ IsBlank(ResolvedInput)
     THEN cli' = Catch("MdHtmlError", "<input> is not specified")
     ELSE cli' = [cli EXCEPT !.pc = "call"]
  /\ UNCHANGED cliVars

\* await converter.watch(...) / await converter.convert(...) inside try
CliCall ==
  /\ cli.pc = "call"
  /\ \E e \in ConverterEnds :
       IF e.outcome = "resolved"
       THEN cli' = IF cli.watch THEN [cli EXCEPT !.pc = "watching"]
                   ELSE [cli EXCEPT !.pc = "exit", !.exit = 0]
       ELSE cli' = Catch(e.outcome, e.message)
  /\ UNCHANGED cliVars

CliNext == CliLoadConfig \/ CliMerge \/ CliCall

CliSpec == CliInit /\ [][CliNext]_vars

\* C18: every MdHtmlError raised in a run of the command line, the ones of the
\* config file included, is reported as the single line "Error: <message>"
\* without a stack, and the process ends with a non-zero status; any other error
\* propagates.
C18_ValidationErrorsReported ==
  cli.pc = "exit" =>
    /\ cli.raised = "MdHtmlError" =>
         (cli.stderr = <<ErrorLine(cli.message)>> /\ cli.exit # 0)
    /\ cli.raised = "Error" =>
         (cli.stderr = <<Uncaught("Error", cli.message)>> /\ cli.exit # 0)

====
